---------------------------- MODULE Spec2Model ----------------------------
(***************************************************************************)
(* A model of the SecV port scanner (tools/scanning/portscan/portscan.py, *)
(* class ElitePortScanner, with the port parser of the older              *)
(* AdvancedPortScanner of tools/scanning/portscan.py beside it).          *)
(*                                                                         *)
(* Text is modelled as a sequence of one-character strings, times as      *)
(* whole milliseconds.                                                     *)
(***************************************************************************)
EXTENDS Integers, Sequences, FiniteSets, TLC

(***************************************************************************)
(* Bounds of the model.                                                    *)
(***************************************************************************)
\* the longest port expression of the parser harness, in comma-separated tokens
MaxTokens == 3

(***************************************************************************)
(* Text helpers: the Python string operations the parsers use.            *)
(***************************************************************************)
Digits == {"0", "1", "2", "3", "4", "5", "6", "7", "8", "9"}

DigitVal(c) ==
    CASE c = "0" -> 0 [] c = "1" -> 1 [] c = "2" -> 2 [] c = "3" -> 3
      [] c = "4" -> 4 [] c = "5" -> 5 [] c = "6" -> 6 [] c = "7" -> 7
      [] c = "8" -> 8 [] c = "9" -> 9

\* x in s, for a one-character x
Contains(s, c) == \E i \in DOMAIN s : s[i] = c

\* the index of the first c in s (s holds one)
FirstIndex(s, c) == CHOOSE i \in DOMAIN s : s[i] = c /\ \A j \in 1..(i - 1) : s[j] # c

\* str.split(sep): every piece between separators, empty pieces kept
RECURSIVE Split(_, _)
Split(s, sep) ==
    IF ~Contains(s, sep) THEN << s >>
    ELSE LET i == FirstIndex(s, sep)
         IN  << SubSeq(s, 1, i - 1) >> \o Split(SubSeq(s, i + 1, Len(s)), sep)

\* str.split(sep, 1): at most one cut, at the first separator
SplitOnce(s, sep) ==
    IF ~Contains(s, sep) THEN << s >>
    ELSE LET i == FirstIndex(s, sep)
         IN  << SubSeq(s, 1, i - 1), SubSeq(s, i + 1, Len(s)) >>

\* str.strip(): leading and trailing blanks removed
RECURSIVE LStrip(_)
LStrip(s) == IF s # << >> /\ s[1] = " " THEN LStrip(Tail(s)) ELSE s

RECURSIVE RStrip(_)
RStrip(s) == IF s # << >> /\ s[Len(s)] = " " THEN RStrip(SubSeq(s, 1, Len(s) - 1)) ELSE s

Strip(s) == RStrip(LStrip(s))

\* the value of a run of decimal digits
RECURSIVE DecimalValue(_)
DecimalValue(s) ==
    IF s = << >> THEN 0
    ELSE 10 * DecimalValue(SubSeq(s, 1, Len(s) - 1)) + DigitVal(s[Len(s)])

AllDigits(s) == s # << >> /\ \A i \in DOMAIN s : s[i] \in Digits

\* int(text): blanks around the number and one leading sign are accepted, anything
\* else raises ValueError (ok = FALSE)
PyInt(text) ==
    LET t    == Strip(text)
        sign == IF t # << >> /\ t[1] \in {"+", "-"} THEN t[1] ELSE ""
        body == IF sign = "" THEN t ELSE Tail(t)
    IN  IF AllDigits(body)
        THEN [ok |-> TRUE,
              val |-> IF sign = "-" THEN 0 - DecimalValue(body) ELSE DecimalValue(body)]
        ELSE [ok |-> FALSE, val |-> 0]

\* sorted(S) of a finite set of integers
RECURSIVE Sorted(_)
Sorted(S) ==
    IF S = {} THEN << >>
    ELSE LET m == CHOOSE x \in S : \A y \in S : x <= y
         IN  << m >> \o Sorted(S \ {m})

\* ",".join(parts)
RECURSIVE Join(_)
Join(parts) ==
    IF parts = << >> THEN << >>
    ELSE IF Len(parts) = 1 THEN parts[1]
    ELSE parts[1] \o << "," >> \o Join(Tail(parts))

(***************************************************************************)
(* Port presets.                                                           *)
(***************************************************************************)
MinPort == 1
MaxPort == 65535

Name_quick      == << "q", "u", "i", "c", "k" >>
Name_top20      == << "t", "o", "p", "-", "2", "0" >>
Name_top100     == << "t", "o", "p", "-", "1", "0", "0" >>
Name_top1000    == << "t", "o", "p", "-", "1", "0", "0", "0" >>
Name_web        == << "w", "e", "b" >>
Name_database   == << "d", "a", "t", "a", "b", "a", "s", "e" >>
Name_mail       == << "m", "a", "i", "l" >>
Name_common     == << "c", "o", "m", "m", "o", "n" >>
Name_all        == << "a", "l", "l" >>
Name_wellknown  == << "w", "e", "l", "l", "-", "k", "n", "o", "w", "n" >>

PresetNames ==
    { Name_quick, Name_top20, Name_top100, Name_top1000, Name_web, Name_database,
      Name_mail, Name_common, Name_all, Name_wellknown }

\* list(range(a, b)); concatenated with the empty sequence so that the value is
\* held as a sequence
PyRangeList(a, b) == [ i \in 1..(b - a) |-> a + i - 1 ] \o << >>

PORT_PRESETS(name) ==
    CASE name = Name_quick ->
           << 21, 22, 23, 25, 80, 110, 135, 139, 143, 443, 445, 3306, 3389, 5900,
              8080 >>
      [] name = Name_top20 ->
           << 21, 22, 23, 25, 53, 80, 110, 111, 135, 139, 143, 443, 445, 993, 995,
              1723, 3306, 3389, 5900, 8080 >>
      [] name = Name_top100  -> PyRangeList(1, 101)
      [] name = Name_top1000 -> PyRangeList(1, 1001)
      [] name = Name_web ->
           << 80, 81, 280, 443, 591, 593, 832, 981, 1010, 1311, 2082, 2087, 2095,
              2096, 2480, 3000, 3128, 3333, 4243, 4567, 4711, 4712, 4993, 5000,
              5001, 5104, 5108, 5280, 5800, 6543, 7000, 7001, 7396, 7474, 8000,
              8001, 8008, 8014, 8042, 8069, 8080, 8081, 8083, 8088, 8090, 8091,
              8118, 8123, 8172, 8181, 8222, 8243, 8280, 8281, 8333, 8337, 8443,
              8500, 8834, 8880, 8888, 8983, 9000, 9043, 9060, 9080, 9090, 9091,
              9200, 9443, 9800, 9981, 11371, 12443, 16080, 18091, 18092, 20720,
              28017 >>
      [] name = Name_database ->
           << 1433, 1521, 2483, 2484, 3050, 3306, 5000, 5432, 5984, 6379, 7000,
              7001, 7473, 7474, 8020, 8086, 8087, 8098, 9042, 9160, 9200, 9300,
              11211, 27017, 27018, 27019, 28017, 50000 >>
      [] name = Name_mail ->
           << 25, 110, 143, 465, 587, 993, 995, 2525 >>
      [] name = Name_common ->
           << 20, 21, 22, 23, 25, 53, 80, 110, 111, 113, 135, 139, 143, 179, 443,
              445, 465, 514, 515, 587, 631, 993, 995, 1080, 1433, 1521, 1723, 2049,
              2181, 3306, 3389, 5432, 5800, 5900, 5984, 6379, 7001, 8000, 8080,
              8443, 8888, 9000, 9042, 9090, 9200, 9300, 11211, 27017, 27018, 50000 >>
      [] name = Name_all       -> PyRangeList(1, 65536)
      [] name = Name_wellknown -> PyRangeList(1, 1024)

(***************************************************************************)
(* ElitePortScanner._parse_ports                                           *)
(***************************************************************************)
\* one comma-separated part of a custom expression: the ports it adds to the set
\* (nothing when either int() raises, which the bare except swallows)
PartPorts(part) ==
    IF Contains(part, "-")
    THEN LET halves == SplitOnce(part, "-")
             start  == PyInt(halves[1])
             end    == PyInt(halves[2])
         IN  IF start.ok /\ end.ok THEN start.val .. end.val ELSE {}
    ELSE LET n == PyInt(part)
         IN  IF n.ok THEN {n.val} ELSE {}

\* the set built by the loop over port_spec.split(',')
CustomPortSet(port_spec) ==
    LET parts == Split(port_spec, ",")
    IN  UNION { PartPorts(Strip(parts[i])) : i \in DOMAIN parts }

\* the parser without its range filter
_parse_ports_unfiltered(port_spec) ==
    IF port_spec \in PresetNames
    THEN PORT_PRESETS(port_spec)
    ELSE Sorted(CustomPortSet(port_spec))

_parse_ports(port_spec) ==
    IF port_spec \in PresetNames
    THEN PORT_PRESETS(port_spec)
    ELSE Sorted({ p \in CustomPortSet(port_spec) : MinPort <= p /\ p <= MaxPort })

(***************************************************************************)
(* AdvancedPortScanner._parse_ports: a result, or the ValueError that      *)
(* leaves the function (ok = FALSE).                                       *)
(***************************************************************************)
Adv_top100 ==
    << 21, 22, 23, 25, 53, 80, 110, 111, 135, 139, 143, 443, 445, 993, 995,
       1723, 3306, 3389, 5900, 8080, 8443, 8888, 10000, 1433, 1521, 1434,
       5432, 6379, 27017, 3000, 5000, 8000, 8081, 9200, 11211, 50000, 2049,
       2181, 5060, 5672, 6000, 7000, 9000, 9090, 15672, 49152, 20, 69, 161,
       162, 389, 636, 873, 1080, 1194, 1433, 1521, 2082, 2083, 2086, 2087,
       2095, 2096, 2222, 3128, 4443, 4444, 5061, 5222, 5269, 5555, 5601,
       5672, 5984, 6667, 7001, 7002, 8009, 8089, 8180, 8443, 8834, 9001,
       9043, 9080, 9090, 9443, 10000, 10443, 27017 >>

\* a part holding '-': start, end = part.split('-') and the two int() calls are
\* outside any try block
AdvRangePart(part) ==
    LET pieces == Split(part, "-")
        start  == PyInt(pieces[1])
        end    == PyInt(pieces[2])
    IN  IF Len(pieces) = 2 /\ start.ok /\ end.ok
        THEN [ok |-> TRUE, ports |-> start.val .. end.val]
        ELSE [ok |-> FALSE, ports |-> {}]

AdvPart(part) ==
    IF Contains(part, "-")
    THEN AdvRangePart(part)
    ELSE LET n == PyInt(part)
         IN  [ok |-> TRUE, ports |-> IF n.ok THEN {n.val} ELSE {}]

Adv_parse_ports(port_spec) ==
    IF port_spec = Name_top100 THEN [ok |-> TRUE, ports |-> Adv_top100]
    ELSE IF port_spec = Name_top1000 THEN [ok |-> TRUE, ports |-> PyRangeList(1, 1001)]
    ELSE LET parts == Split(port_spec, ",")
             each  == [ i \in DOMAIN parts |-> AdvPart(Strip(parts[i])) ]
         IN  IF \A i \in DOMAIN parts : each[i].ok
             THEN [ok |-> TRUE,
                   ports |-> Sorted({ p \in UNION { each[i].ports : i \in DOMAIN parts } :
                                        MinPort <= p /\ p <= MaxPort })]
             ELSE [ok |-> FALSE, ports |-> << >>]

(***************************************************************************)
(* Program constants of ElitePortScanner (times in milliseconds).          *)
(***************************************************************************)
DefaultTimeout      == 1000
max_timeout_samples == 100
MinSamples          == 10
FloorTimeout        == 500
CeilingTimeout      == 10000
DefaultThreads      == 100
WorkerCap           == 500
MasscanThreshold    == 10000
SynThreshold        == 100
ConnectConfidence   == 70
ConnectFilteredConfidence == 50
SynConfidence       == 90
SynFilteredConfidence == 60
MasscanConfidence   == 85
HttpBonus           == 15
MaxConfidence       == 100

Min(a, b) == IF a <= b THEN a ELSE b
Max(a, b) == IF a >= b THEN a ELSE b

(***************************************************************************)
(* Bounds of the scan model and the inputs it draws.                       *)
(***************************************************************************)
\* the most ports one modelled scan names
MaxScanPorts == 2
\* how many of the options threads, timeout, show_closed, show_filtered a run may
\* set away from their defaults
MaxDeviations == 1
\* the calls of _update_adaptive_timeout one run of the timeout harness makes
MaxUpdates == 2

Tok(n) ==
    CASE n = 1 -> << "8", "0" >>
      [] n = 2 -> << "8", "0", "0", "0" >>
      [] OTHER -> << "2", "1" >>

\* the port expressions of the modelled scans: "x" (no valid port), "80", "80,8000", ...
ScanPortSpecs ==
    { << "x" >> } \cup { Join([ i \in 1..k |-> Tok(i) ]) : k \in 1..MaxScanPorts }

Engines == { "masscan", "syn", "nmap", "connect" }
EnginePrefs == Engines \cup { "auto" }
\* params['threads']: none, one, the default, more than the cap
ThreadChoices == { 0, 1, DefaultThreads, 600 }
\* params['timeout']: below the floor, the default, above the ceiling
TimeoutChoices == { 100, DefaultTimeout, 30000 }
\* latencies a connect can observe (even, so that 1.5 times a latency is whole)
Latencies == { 40 }
\* samples fed to the timeout controller alone: negative, zero, mid, large
Samples == { -2, 0, 2000, 8000 }

(***************************************************************************)
(* SERVICE_FINGERPRINTS, the entries of the ports the model scans, and the *)
(* banners a service may answer with.  RegexSearch is re.search evaluated  *)
(* on exactly these banners.                                               *)
(***************************************************************************)
B_empty   == ""
B_ftp     == "220 Welcome to FTP service"
B_apache  == "HTTP/1.1 200 OK, Server: Apache/2.4.49 (Unix)"
B_http    == "HTTP/1.1 404 Not Found"
\* what a service answers the probe of _grab_banner_and_detect with
Banners   == { B_ftp, B_apache, B_http }
\* what the recv right after a connect reads: nothing within its two seconds, or
\* a greeting
ConnectBanners == { B_empty, B_ftp }

FingerprintPorts == { 21, 80, 443 }

FingerprintName(port) ==
    CASE port = 21 -> "ftp" [] port = 80 -> "http" [] port = 443 -> "https"

FingerprintPatterns(port) ==
    CASE port = 21 ->
           << [pattern |-> "220.*FileZilla", name |-> "FileZilla FTP", confidence |-> 90],
              [pattern |-> "220.*ProFTPD ([\\d.]+)", name |-> "ProFTPD", confidence |-> 95],
              [pattern |-> "220.*vsftpd ([\\d.]+)", name |-> "vsftpd", confidence |-> 95],
              [pattern |-> "220.*Pure-FTPd", name |-> "Pure-FTPd", confidence |-> 90],
              [pattern |-> "220.*Microsoft FTP Service", name |-> "Microsoft IIS FTP",
               confidence |-> 95],
              [pattern |-> "220[- ].*FTP", name |-> "Generic FTP", confidence |-> 70] >>
      [] port = 80 ->
           << [pattern |-> "Server: Apache/([\\d.]+)", name |-> "Apache HTTP Server",
               confidence |-> 95],
              [pattern |-> "Server: nginx/([\\d.]+)", name |-> "nginx", confidence |-> 95],
              [pattern |-> "Server: Microsoft-IIS/([\\d.]+)", name |-> "Microsoft IIS",
               confidence |-> 95],
              [pattern |-> "Server: lighttpd/([\\d.]+)", name |-> "lighttpd",
               confidence |-> 95],
              [pattern |-> "HTTP/", name |-> "Generic HTTP", confidence |-> 70] >>
      [] port = 443 -> << >>

\* re.search(pattern, banner): whether it matches, and group(1) when the pattern
\* has a group ("" when it has none)
RegexSearch(pattern, banner) ==
    CASE pattern = "220[- ].*FTP" /\ banner = B_ftp ->
           [hit |-> TRUE, groups |-> FALSE, group1 |-> ""]
      [] pattern = "Server: Apache/([\\d.]+)" /\ banner = B_apache ->
           [hit |-> TRUE, groups |-> TRUE, group1 |-> "2.4.49"]
      [] pattern = "HTTP/" /\ banner \in { B_apache, B_http } ->
           [hit |-> TRUE, groups |-> FALSE, group1 |-> ""]
      [] OTHER -> [hit |-> FALSE, groups |-> FALSE, group1 |-> ""]

\* SERVICE_FINGERPRINTS.get(port, {}).get('name', f'port-{port}')
ServiceName(port) ==
    IF port \in FingerprintPorts THEN FingerprintName(port)
    ELSE IF port = 8000 THEN "port-8000" ELSE "port-N"

(***************************************************************************)
(* PortResult                                                              *)
(***************************************************************************)
PortResult(port, state, service, version, banner, response_time, confidence) ==
    [port |-> port, state |-> state, service |-> service, version |-> version,
     banner |-> banner, http_status |-> 0, http_server |-> "",
     response_time |-> response_time, confidence |-> confidence,
     vulnerabilities |-> << >>, cves |-> << >>]

(***************************************************************************)
(* State.                                                                  *)
(***************************************************************************)
VARIABLES
    \* the parser harness: the expression, the tokens it was joined from (history),
    \* the two parsers' results, and whether they have run
    port_spec, tokens, parsed, adv_parsed, ppc,
    \* the scanner object and the run of scan()
    params,            \* the caller's params
    CAPABILITIES,      \* what the imports and the masscan probe found
    pc,                \* where scan() is
    idx,               \* results already visited by the running enrichment loop
    ports,             \* the parsed port list
    max_workers, adaptive_timeout, timeout_history, stats, results,
    tasks,             \* the connect pool's tasks, one per port
    output,            \* what the run hands back
    \* history variables
    engines_run,       \* the engines entered, in order
    signals,           \* what the network and the external tools answered
    raw_denied,        \* the half-open engine was refused its raw socket
    handed_timeouts,   \* every timeout handed to a probe
    updates,           \* calls made by the timeout harness
    \* main()
    stdin,             \* the document on standard input
    constructed,       \* ElitePortScanner(target, params) has been called
    \* the selection harness
    num_ports,         \* the argument of _select_best_engine
    raw_socket,        \* what opening the test raw socket does
    selected,          \* what _select_best_engine returned
    \* the connect pool statement by statement
    rate_limit,        \* probes per second, 0 for no limit
    last_send_time,    \* the emission-rate state
    clock,             \* time.time()
    frames,            \* each task's position in scan_port and its local variables
    \* OS detection
    host_info,         \* self.host_info: os_family and os_confidence
    icmp_ttl           \* the TTL of the answer to the ICMP probe, 0 for no answer

parseVars == << port_spec, tokens, parsed, adv_parsed, ppc >>
mainVars  == << stdin, constructed >>
selectVars == << num_ports, raw_socket, selected >>
poolVars  == << rate_limit, last_send_time, clock, frames >>
osVars    == << host_info, icmp_ttl >>
scanVars  == << params, CAPABILITIES, pc, idx, ports, max_workers, adaptive_timeout,
                timeout_history, stats, results, tasks, output, engines_run, signals,
                raw_denied, handed_timeouts, updates >>
vars      == << port_spec, tokens, parsed, adv_parsed, ppc,
                params, CAPABILITIES, pc, idx, ports, max_workers, adaptive_timeout,
                timeout_history, stats, results, tasks, output, engines_run, signals,
                raw_denied, handed_timeouts, updates,
                stdin, constructed, num_ports, raw_socket, selected,
                rate_limit, last_send_time, clock, frames, host_info, icmp_ttl >>

\* what the steps of a scan leave alone, and what the steps of the parser harness
\* leave alone
otherVars    == << parseVars, mainVars, selectVars, poolVars, osVars >>
nonParseVars == << scanVars, mainVars, selectVars, poolVars, osVars >>

(***************************************************************************)
(* ElitePortScanner.__init__                                               *)
(***************************************************************************)
NewStats ==
    [packets_sent |-> 0, packets_received |-> 0, open_ports |-> 0, closed_ports |-> 0,
     filtered_ports |-> 0, timeouts |-> 0, errors |-> 0]

\* min(int(params.get('threads', 100)), 500), off by one
MaxWorkersOffByOne(threads) == Min(threads, WorkerCap) + 1

\* min(int(params.get('threads', 100)), 500)
MaxWorkers(threads) == Min(threads, WorkerCap)

\* nothing written yet: the process is running
NoOutput ==
    [kind |-> "none", success |-> FALSE, scan_type |-> "", errors |-> << >>,
     keys |-> {}, stream |-> "none", exit_code |-> 0]

IdleParse ==
    /\ port_spec = << >>
    /\ tokens = << >>
    /\ parsed = << >>
    /\ adv_parsed = [ok |-> TRUE, ports |-> << >>]
    /\ ppc = "idle"

\* the selection harness is not running; no rate limit is set and the connect
\* pool is not followed statement by statement
IdleSelect ==
    /\ num_ports = 0
    /\ raw_socket = "opens"
    /\ selected = ""
    /\ rate_limit = 0
    /\ last_send_time = 0
    /\ clock = 0
    /\ frames = << >>
    /\ host_info = [os_family |-> "", os_confidence |-> 0]
    /\ icmp_ttl = 0

\* the process before main() has read standard input: there is no scanner object
\* yet, and the variables that model its fields hold nothing
Unconstructed(p, caps) ==
    /\ params = p
    /\ CAPABILITIES = caps
    /\ pc = "main"
    /\ constructed = FALSE
    /\ idx = 0
    /\ ports = << >>
    /\ max_workers = 0
    /\ adaptive_timeout = 0
    /\ timeout_history = << >>
    /\ stats = NewStats
    /\ results = << >>
    /\ tasks = << >>
    /\ output = NoOutput
    /\ engines_run = << >>
    /\ signals = {}
    /\ raw_denied = FALSE
    /\ handed_timeouts = {}
    /\ updates = 0

\* params.get(...)'s defaults
DefaultOptions ==
    [threads |-> DefaultThreads, timeout |-> DefaultTimeout, show_closed |-> FALSE,
     show_filtered |-> FALSE]

OptionChoices ==
    { o \in [threads : ThreadChoices, timeout : TimeoutChoices, show_closed : BOOLEAN,
             show_filtered : BOOLEAN] :
        Cardinality({ f \in DOMAIN DefaultOptions : o[f] # DefaultOptions[f] })
            <= MaxDeviations }

ParamChoices ==
    { [engine |-> e, ports |-> ps, threads |-> o.threads, timeout |-> o.timeout,
       show_closed |-> o.show_closed, show_filtered |-> o.show_filtered] :
        e \in EnginePrefs, ps \in ScanPortSpecs, o \in OptionChoices }

CapabilityChoices == [scapy : BOOLEAN, nmap : BOOLEAN, masscan : BOOLEAN]

\* context.get('params', {}) of a document without params; it also stands for
\* the params of a scanner that does not exist
NoParams ==
    [engine |-> "auto", ports |-> << >>, threads |-> DefaultThreads,
     timeout |-> DefaultTimeout, show_closed |-> FALSE, show_filtered |-> FALSE]

\* standard input that json.loads rejects
InvalidJson == [json_ok |-> FALSE, has_target |-> FALSE, params |-> NoParams]

\* a JSON object without the key 'target'
NoTarget == [json_ok |-> TRUE, has_target |-> FALSE, params |-> NoParams]

Malformed == { InvalidJson, NoTarget }

\* a scanner object exists: no harness reads standard input
NoDocument == [json_ok |-> TRUE, has_target |-> TRUE, params |-> NoParams]

StdinDocuments ==
    Malformed \cup { [json_ok |-> TRUE, has_target |-> TRUE, params |-> p] :
                       p \in ParamChoices }

Init ==
    /\ IdleParse
    /\ IdleSelect
    /\ stdin \in StdinDocuments
    /\ \E caps \in CapabilityChoices : Unconstructed(NoParams, caps)

(***************************************************************************)
(* _select_best_engine and the dispatch of scan()                          *)
(***************************************************************************)
\* _select_best_engine with thresholds that include their limit
_select_best_engine_inclusive(n, caps, raw_ok) ==
    IF caps.masscan /\ n >= MasscanThreshold THEN "masscan"
    ELSE IF caps.scapy /\ n >= SynThreshold /\ raw_ok THEN "syn"
    ELSE IF caps.nmap THEN "nmap"
    ELSE "connect"

\* raw_ok: whether the test raw socket can be opened (PermissionError otherwise)
_select_best_engine(n, caps, raw_ok) ==
    IF caps.masscan /\ n > MasscanThreshold THEN "masscan"
    ELSE IF caps.scapy /\ n > SynThreshold /\ raw_ok THEN "syn"
    ELSE IF caps.nmap THEN "nmap"
    ELSE "connect"

\* the if/elif chain of scan(): the engine function called for the chosen engine
DispatchEngine(engine, caps) ==
    IF engine = "masscan" /\ caps.masscan THEN "masscan"
    ELSE IF engine = "syn" /\ caps.scapy THEN "syn"
    ELSE IF engine = "nmap" /\ caps.nmap THEN "nmap"
    ELSE "connect"

\* the hand-over of _masscan_scan when it fails, always to connect
MasscanFallbackConnect(caps) == "connect"

\* the hand-over of _masscan_scan when it fails
MasscanFallback(caps) == IF caps.scapy THEN "syn" ELSE "connect"

\* a hand-over of _syn_scan and of _nmap_scan to the half-open engine
SynFallback == "syn"

\* the hand-over of _syn_scan and of _nmap_scan when they fail
ConnectFallback == "connect"

\* a failure document: {"success": False, "errors": [message]}
Failure(kind, message) ==
    [kind |-> kind, success |-> FALSE, scan_type |-> "", errors |-> << message >>,
     keys |-> { "success", "errors" }]

\* the document _build_result returns
Report(scan_type) ==
    [kind |-> "report", success |-> TRUE, scan_type |-> scan_type, errors |-> << >>,
     keys |-> { "success", "data", "errors" }]

\* a process end of main(): the document, the stream it is printed to and the
\* exit code
Ended(document, stream, exit_code) ==
    [kind |-> document.kind, success |-> document.success,
     scan_type |-> document.scan_type, errors |-> document.errors,
     keys |-> document.keys, stream |-> stream, exit_code |-> exit_code]

\* print(json.dumps(result, indent=2)) and the return of main()
MainPrints(result) == Ended(result, "stdout", 0)

\* except Exception, exiting with 0
MainCatchesQuietly(message) == Ended(Failure("exception", message), "stderr", 0)

\* except Exception: the failure document goes to sys.stderr, then sys.exit(1)
MainCatches(message) == Ended(Failure("exception", message), "stderr", 1)

\* except KeyboardInterrupt: the failure document is printed, then sys.exit(1)
MainInterrupted == Ended(Failure("interrupt", "Scan interrupted by user"), "stdout", 1)

\* main() up to the call of scan(): json.loads(sys.stdin.read()), context['target']
\* and ElitePortScanner(target, params); an exception of the first two ends the
\* process in the except Exception clause
main ==
    /\ pc = "main"
    /\ IF stdin.json_ok /\ stdin.has_target
       THEN /\ params' = stdin.params
            /\ constructed' = TRUE
            /\ max_workers' = MaxWorkers(stdin.params.threads)
            /\ adaptive_timeout' = stdin.params.timeout
            /\ pc' = "start"
            /\ UNCHANGED output
       ELSE /\ output' = MainCatches(IF stdin.json_ok THEN "'target'"
                                     ELSE "Expecting value: line 1 column 1 (char 0)")
            /\ pc' = "done"
            /\ UNCHANGED << params, constructed, max_workers, adaptive_timeout >>
    /\ UNCHANGED << CAPABILITIES, idx, ports, timeout_history, stats, results, tasks,
                    engines_run, signals, raw_denied, handed_timeouts, updates, stdin >>
    /\ UNCHANGED << parseVars, selectVars, poolVars, osVars >>

\* KeyboardInterrupt while main() waits in sys.stdin.read()
Interrupt ==
    /\ pc = "main"
    /\ output' = MainInterrupted
    /\ pc' = "done"
    /\ UNCHANGED << params, CAPABILITIES, idx, ports, max_workers, adaptive_timeout,
                    timeout_history, stats, results, tasks, engines_run, signals,
                    raw_denied, handed_timeouts, updates >>
    /\ UNCHANGED otherVars

\* scan(), up to the call of the engine
StartScan ==
    /\ pc = "start"
    /\ LET parsed_ports == _parse_ports(params.ports)
       IN  /\ ports' = parsed_ports
           /\ IF parsed_ports = << >>
              THEN /\ output' = MainPrints(Failure("no_ports",
                                                    "No valid ports specified"))
                   /\ pc' = "done"
                   /\ UNCHANGED engines_run
              ELSE \E raw_ok \in BOOLEAN :
                     LET engine == IF params.engine = "auto"
                                   THEN _select_best_engine(Len(parsed_ports),
                                                            CAPABILITIES, raw_ok)
                                   ELSE params.engine
                         run    == DispatchEngine(engine, CAPABILITIES)
                     IN  /\ pc' = run
                         /\ engines_run' = << run >>
                         /\ UNCHANGED output
    /\ UNCHANGED << params, CAPABILITIES, idx, max_workers, adaptive_timeout,
                    timeout_history, stats, results, tasks, signals, raw_denied,
                    handed_timeouts, updates >>
    /\ UNCHANGED otherVars

(***************************************************************************)
(* Engines.  Each engine but connect runs in the calling thread; its loop  *)
(* over the answers is one step, with the answers and the point where an   *)
(* exception leaves the loop drawn from what the tool can deliver.         *)
(***************************************************************************)
RECURSIVE ConcatOver(_, _, _)
ConcatOver(f, i, n) == IF i > n THEN << >> ELSE f[i] \o ConcatOver(f, i + 1, n)

Signal(engine, port, kind) == [engine |-> engine, port |-> port, kind |-> kind]

\* the answers that say a port accepts connections: connect_ex returning 0, a
\* SYN/ACK, a port record of masscan, the state open in nmap's report
PositiveKinds == { "connected", "synack", "port_record", "open" }
Positive(S) == { s \in S : s.kind \in PositiveKinds }

\* an engine hands over to `next`
EnterEngine(next) ==
    /\ pc' = next
    /\ engines_run' = Append(engines_run, next)

\* an engine returns to scan(), which goes on to the enrichment stages
EngineReturns ==
    /\ pc' = "service_detection"
    /\ idx' = 0
    /\ UNCHANGED engines_run

\* -- _masscan_scan ------------------------------------------------------
\* the PortResult of one port record of masscan's output
MasscanResult(port) ==
    PortResult(port, "open", ServiceName(port), "", "", 0, MasscanConfidence)

\* masscan's JSON output is one object per line, each with a ports list whose
\* entries carry a port; lines json cannot read are skipped.  What raises is
\* subprocess.run (no binary, timeout), before anything is recorded.
_masscan_scan ==
    /\ pc = "masscan"
    /\ \/ \* subprocess.run raises: nothing was recorded
          /\ EnterEngine(MasscanFallback(CAPABILITIES))
          /\ UNCHANGED << stats, results, signals, idx >>
       \/ \* the output names the ports `reported`
          \E reported \in SUBSET (1..Len(ports)) :
            LET found == [ i \in 1..Len(ports) |->
                             IF i \in reported THEN << MasscanResult(ports[i]) >>
                             ELSE << >> ]
                added == ConcatOver(found, 1, Len(ports))
            IN  /\ results' = results \o added
                /\ signals' = signals \cup Positive(
                                { Signal("masscan", ports[i], "port_record") : i \in reported })
                /\ stats' = [stats EXCEPT !.open_ports = @ + Len(added),
                                          !.packets_sent = Len(ports)]
                /\ EngineReturns
    /\ UNCHANGED << params, CAPABILITIES, ports, max_workers, adaptive_timeout,
                    timeout_history, tasks, output, raw_denied, handed_timeouts, updates >>
    /\ UNCHANGED otherVars

\* -- _syn_scan ----------------------------------------------------------
\* what one port answers to a SYN: SYN/ACK (0x12), RST/ACK (0x14), other flags, nothing
SynReplies == { "synack", "rst", "other", "none" }

\* the half-open engine taking an RST for an open port
SynAnswerRstOpen(port, reply, show_closed) ==
    IF reply \in { "synack", "rst" }
    THEN << PortResult(port, "open", ServiceName(port), "", "", 0, SynConfidence) >>
    ELSE << >>

\* the PortResults the loop over the answered packets appends for one answer
SynAnswer(port, reply, show_closed) ==
    IF reply = "synack"
    THEN << PortResult(port, "open", ServiceName(port), "", "", 0, SynConfidence) >>
    ELSE IF reply = "rst" /\ show_closed
    THEN << PortResult(port, "closed", "unknown", "", "", 0, 0) >>
    ELSE << >>

SynUnanswered(port) ==
    << PortResult(port, "filtered", "unknown", "", "", 0, SynFilteredConfidence) >>

_syn_scan ==
    /\ pc = "syn"
    /\ handed_timeouts' = handed_timeouts \cup { adaptive_timeout }
    /\ \/ \* scapy.sr raises, for want of a raw socket or for another reason
          \E denied \in BOOLEAN :
            /\ raw_denied' = (raw_denied \/ denied)
            /\ EnterEngine(ConnectFallback)
            /\ UNCHANGED << stats, results, signals, idx >>
       \/ \* sr returns; stop = 0, or the answer whose RST cannot be sent
          \E replies \in [ 1..Len(ports) -> SynReplies ] :
          \E stop \in { 0 } \cup { i \in 1..Len(ports) : replies[i] = "synack" } :
            LET n        == Len(ports)
                seen(i)  == replies[i] # "none" /\ (stop = 0 \/ i <= stop)
                answered == [ i \in 1..n |->
                                IF seen(i)
                                THEN SynAnswer(ports[i], replies[i], params.show_closed)
                                ELSE << >> ]
                silent   == [ i \in 1..n |->
                                IF replies[i] = "none" /\ params.show_filtered
                                THEN SynUnanswered(ports[i]) ELSE << >> ]
                nopen    == Cardinality({ i \in 1..n : seen(i) /\ replies[i] = "synack" })
                nclosed  == Cardinality({ i \in 1..n : seen(i) /\ replies[i] = "rst" })
                nans     == Cardinality({ i \in 1..n : replies[i] # "none" })
                counted  == [stats EXCEPT !.packets_sent = n,
                                          !.packets_received = nans,
                                          !.open_ports = @ + nopen,
                                          !.closed_ports = @ + nclosed]
            IN  /\ signals' = signals \cup
                                Positive({ Signal("syn", ports[i], replies[i]) : i \in 1..n })
                /\ UNCHANGED raw_denied
                /\ IF stop # 0
                   THEN /\ results' = results \o ConcatOver(answered, 1, n)
                        /\ stats' = counted
                        /\ EnterEngine(ConnectFallback)
                        /\ UNCHANGED idx
                   ELSE /\ results' = results \o ConcatOver(answered, 1, n)
                                              \o ConcatOver(silent, 1, n)
                        /\ stats' = [counted EXCEPT !.filtered_ports = n - nans]
                        /\ EngineReturns
    /\ UNCHANGED << params, CAPABILITIES, ports, max_workers, adaptive_timeout,
                    timeout_history, tasks, output, updates >>
    /\ UNCHANGED otherVars

\* -- _nmap_scan ---------------------------------------------------------
NmapName(port) ==
    CASE port = 21 -> "ftp" [] port = 80 -> "http" [] OTHER -> "http-alt"

\* the records nmap can report for one port: state, service name, version, conf.
\* The arguments are "-p ... -T4" with "-sV" and "-O" at most, so nmap runs its
\* SYN or its connect scan, whose port states are open, closed and filtered.
NmapRecords(port) ==
    { [state |-> "open", name |-> NmapName(port), version |-> "2.4.49", conf |-> 10],
      [state |-> "open", name |-> NmapName(port), version |-> "", conf |-> 3],
      [state |-> "closed", name |-> NmapName(port), version |-> "", conf |-> 3],
      [state |-> "filtered", name |-> NmapName(port), version |-> "", conf |-> 3] }

\* the PortResult of one reported port, with the service name filed as its state
NmapPortMisfiled(port, rec, show_closed) ==
    IF rec.state = "open" \/ show_closed
    THEN << PortResult(port, rec.name, rec.name, rec.version, "", 0, rec.conf) >>
    ELSE << >>

NmapPort(port, rec, show_closed) ==
    IF rec.state = "open" \/ show_closed
    THEN << PortResult(port, rec.state, rec.name, rec.version, "", 0, rec.conf) >>
    ELSE << >>

_nmap_scan ==
    /\ pc = "nmap"
    /\ \/ \* nmap.PortScanner() or nm.scan raises
          /\ EnterEngine(ConnectFallback)
          /\ UNCHANGED << stats, results, signals, idx >>
       \/ \* the host is not in nm.all_hosts()
          /\ stats' = [stats EXCEPT !.packets_sent = Len(ports),
                                    !.packets_received = Len(results)]
          /\ EngineReturns
          /\ UNCHANGED << results, signals >>
       \/ \* the host's ports are reported; `broken`: the osmatch loop raises
          \E report \in { r \in [ 1..Len(ports) -> UNION { NmapRecords(ports[i]) :
                                                            i \in 1..Len(ports) } ] :
                            \A i \in 1..Len(ports) : r[i] \in NmapRecords(ports[i]) } :
          \E broken \in BOOLEAN :
            LET n       == Len(ports)
                listed  == [ i \in 1..n |->
                               NmapPort(ports[i], report[i], params.show_closed) ]
                added   == ConcatOver(listed, 1, n)
                nopen   == Cardinality({ i \in 1..n : report[i].state = "open" })
                nclosed == Cardinality({ i \in 1..n : report[i].state = "closed" })
                counted == [stats EXCEPT !.open_ports = @ + nopen,
                                         !.closed_ports = @ + nclosed,
                                         !.filtered_ports = @ + (n - nopen - nclosed)]
            IN  /\ results' = results \o added
                /\ signals' = signals \cup
                                Positive({ Signal("nmap", ports[i], report[i].state) :
                                           i \in 1..n })
                /\ IF broken
                   THEN /\ stats' = counted
                        /\ EnterEngine(ConnectFallback)
                        /\ UNCHANGED idx
                   ELSE /\ stats' = [counted EXCEPT !.packets_sent = n,
                                                    !.packets_received = Len(results')]
                        /\ EngineReturns
    /\ UNCHANGED << params, CAPABILITIES, ports, max_workers, adaptive_timeout,
                    timeout_history, tasks, output, raw_denied, handed_timeouts, updates >>
    /\ UNCHANGED otherVars

\* -- _update_adaptive_timeout --------------------------------------------
\* the window and the timeout after one more sample; 1.5 * p95 is whole because
\* the samples are even
\* max(0.5, min(10.0, x)) without the floor
ClampNoFloor(x) == Min(CeilingTimeout, x)

\* max(0.5, min(10.0, x))
Clamp(x) == Max(FloorTimeout, Min(CeilingTimeout, x))

\* sorted(self.timeout_history)[int(len(sorted_times) * 0.95)]
P95Time(window) ==
    LET sorted_times == SortSeq(window, LAMBDA a, b : a < b)
        p95_index    == (Len(sorted_times) * 95) \div 100
    IN  sorted_times[p95_index + 1]

_update_adaptive_timeout(history, current, response_time) ==
    LET appended     == Append(history, response_time)
        window       == IF Len(appended) > max_timeout_samples THEN Tail(appended)
                        ELSE appended
    IN  [timeout_history  |-> window,
         adaptive_timeout |->
             IF Len(window) >= MinSamples
             THEN Clamp((P95Time(window) * 3) \div 2)
             ELSE current]

\* -- _connect_scan ------------------------------------------------------
\* The pool: ThreadPoolExecutor(max_workers) refuses max_workers <= 0 with
\* ValueError; otherwise executor.map queues one task per port and at most
\* max_workers threads take tasks from the queue, first in first out.
Running == { i \in DOMAIN tasks : tasks[i] = "connecting" }

ConnectEnter ==
    /\ pc = "connect"
    /\ IF max_workers <= 0
       THEN /\ pc' = "done"
            /\ output' = MainCatches("max_workers must be greater than 0")
            /\ UNCHANGED tasks
       ELSE /\ pc' = "connect_pool"
            /\ tasks' = [ i \in 1..Len(ports) |-> "queued" ]
            /\ UNCHANGED output
    /\ UNCHANGED << params, CAPABILITIES, idx, ports, max_workers, adaptive_timeout,
                    timeout_history, stats, results, engines_run, signals, raw_denied,
                    handed_timeouts, updates >>
    /\ UNCHANGED otherVars

\* a pool thread takes the next task: scan_port up to the call of connect_ex, with
\* the timeout it sets on its socket
TaskStart(i) ==
    /\ pc = "connect_pool"
    /\ tasks[i] = "queued"
    /\ \A j \in 1..(i - 1) : tasks[j] # "queued"
    /\ Cardinality(Running) < max_workers
    /\ tasks' = [tasks EXCEPT ![i] = "connecting"]
    /\ handed_timeouts' = handed_timeouts \cup { adaptive_timeout }
    /\ UNCHANGED << params, CAPABILITIES, pc, idx, ports, max_workers, adaptive_timeout,
                    timeout_history, stats, results, output, engines_run, signals,
                    raw_denied, updates >>
    /\ UNCHANGED otherVars

\* How connect_ex ends: it returns 0, or an errno (ECONNREFUSED; EWOULDBLOCK when
\* the socket's timeout passes: connect_ex returns it and does not raise), or an
\* exception other than socket.timeout leaves it (the host name does not resolve).
ConnectEnds ==
    { [raised |-> "", rc |-> 0], [raised |-> "", rc |-> 111], [raised |-> "", rc |-> 11],
      [raised |-> "gaierror", rc |-> 0] }

ConnectSignal(e) ==
    IF e.raised # "" THEN "exception"
    ELSE IF e.rc = 0 THEN "connected"
    ELSE IF e.rc = 111 THEN "refused"
    ELSE "no_response"

\* the branch of scan_port taken
ConnectBranch(e) ==
    IF e.raised = "" THEN (IF e.rc = 0 THEN "open" ELSE "closed")
    ELSE IF e.raised = "socket.timeout" THEN "filtered"
    ELSE "error"

\* the rest of scan_port: the counters, the PortResult, the timeout controller
scan_port(i) ==
    /\ pc = "connect_pool"
    /\ tasks[i] = "connecting"
    /\ tasks' = [tasks EXCEPT ![i] = "done"]
    /\ \E e \in ConnectEnds, response_time \in Latencies :
         LET port   == ports[i]
             branch == ConnectBranch(e)
             sent   == IF e.raised = "" THEN [stats EXCEPT !.packets_sent = @ + 1]
                       ELSE stats
         IN  /\ signals' = signals \cup
                             Positive({ Signal("connect", port, ConnectSignal(e)) })
             /\ CASE branch = "open" ->
                       \E banner \in ConnectBanners :
                         LET upd == _update_adaptive_timeout(timeout_history,
                                        adaptive_timeout, response_time)
                         IN  /\ stats' = [sent EXCEPT !.open_ports = @ + 1,
                                                      !.packets_received = @ + 1]
                             /\ results' = Append(results,
                                   PortResult(port, "open", ServiceName(port), "", banner,
                                              response_time, ConnectConfidence))
                             /\ timeout_history' = upd.timeout_history
                             /\ adaptive_timeout' = upd.adaptive_timeout
                  [] branch = "closed" ->
                       /\ stats' = [sent EXCEPT !.closed_ports = @ + 1]
                       /\ results' = IF params.show_closed
                                     THEN Append(results,
                                            PortResult(port, "closed", "unknown", "", "",
                                                       response_time, 0))
                                     ELSE results
                       /\ UNCHANGED << timeout_history, adaptive_timeout >>
                  [] branch = "filtered" ->
                       /\ stats' = [sent EXCEPT !.timeouts = @ + 1,
                                                !.filtered_ports = @ + 1]
                       /\ results' = IF params.show_filtered
                                     THEN Append(results,
                                            PortResult(port, "filtered", "unknown", "", "",
                                                       0, ConnectFilteredConfidence))
                                     ELSE results
                       /\ UNCHANGED << timeout_history, adaptive_timeout >>
                  [] OTHER ->
                       /\ stats' = [sent EXCEPT !.errors = @ + 1]
                       /\ UNCHANGED << results, timeout_history, adaptive_timeout >>
    /\ UNCHANGED << params, CAPABILITIES, pc, idx, ports, max_workers, output,
                    engines_run, raw_denied, handed_timeouts, updates >>
    /\ UNCHANGED otherVars

\* leaving the with block without waiting for the tasks
ConnectExitEarly ==
    /\ pc = "connect_pool"
    /\ EngineReturns
    /\ UNCHANGED << params, CAPABILITIES, ports, max_workers, adaptive_timeout,
                    timeout_history, stats, results, tasks, output, signals, raw_denied,
                    handed_timeouts, updates >>
    /\ UNCHANGED otherVars

\* the with block ends once every task has finished
ConnectExit ==
    /\ pc = "connect_pool"
    /\ \A i \in DOMAIN tasks : tasks[i] = "done"
    /\ EngineReturns
    /\ UNCHANGED << params, CAPABILITIES, ports, max_workers, adaptive_timeout,
                    timeout_history, stats, results, tasks, output, signals, raw_denied,
                    handed_timeouts, updates >>
    /\ UNCHANGED otherVars

(***************************************************************************)
(* Enrichment stages of scan().  params['service_detection'],              *)
(* params['http_analysis'] and CAPABILITIES['requests'] are each read      *)
(* once, where a stage begins: the stage is skipped on a false value.      *)
(***************************************************************************)
ReplaceAt(seq, i, x) == [seq EXCEPT ![i] = x]

\* result.confidence = confidence, losing the max
MatchedConfidenceOverwrite(current, confidence) == confidence

\* max(result.confidence, confidence)
MatchedConfidence(current, confidence) == Max(current, confidence)

\* the index of the first pattern of the port that matches the banner, 0 if none
FirstMatch(port, banner) ==
    LET patterns == FingerprintPatterns(port)
        hits     == { k \in DOMAIN patterns : RegexSearch(patterns[k].pattern, banner).hit }
    IN  IF hits = {} THEN 0 ELSE CHOOSE k \in hits : \A j \in hits : k <= j

\* _grab_banner_and_detect once the banner has been received
_grab_banner_and_detect(result, banner) ==
    LET k == FirstMatch(result.port, banner)
        p == FingerprintPatterns(result.port)[k]
        m == RegexSearch(p.pattern, banner)
    IN  IF k = 0 THEN [result EXCEPT !.banner = banner]
        ELSE [result EXCEPT !.banner = banner,
                            !.service = p.name,
                            !.confidence = MatchedConfidence(result.confidence, p.confidence),
                            !.version = IF m.groups THEN m.group1 ELSE result.version]

SkipServiceDetection ==
    /\ pc = "service_detection"
    /\ idx = 0
    /\ pc' = "http_analysis"
    /\ UNCHANGED << params, CAPABILITIES, idx, ports, max_workers, adaptive_timeout,
                    timeout_history, stats, results, tasks, output, engines_run, signals,
                    raw_denied, handed_timeouts, updates >>
    /\ UNCHANGED otherVars

\* one turn of the loop of _enhance_service_detection
DetectService ==
    /\ pc = "service_detection"
    /\ idx < Len(results)
    /\ idx' = idx + 1
    /\ LET result == results[idx + 1]
       IN  IF result.state = "open" /\ result.port \in FingerprintPorts
           THEN \/ \* the connection or the read fails: except Exception: pass
                   UNCHANGED results
                \/ \E banner \in Banners :
                     results' = ReplaceAt(results, idx + 1,
                                          _grab_banner_and_detect(result, banner))
           ELSE UNCHANGED results
    /\ UNCHANGED << params, CAPABILITIES, pc, ports, max_workers, adaptive_timeout,
                    timeout_history, stats, tasks, output, engines_run, signals,
                    raw_denied, handed_timeouts, updates >>
    /\ UNCHANGED otherVars

EndServiceDetection ==
    /\ pc = "service_detection"
    /\ idx = Len(results)
    /\ pc' = "http_analysis"
    /\ idx' = 0
    /\ UNCHANGED << params, CAPABILITIES, ports, max_workers, adaptive_timeout,
                    timeout_history, stats, results, tasks, output, engines_run, signals,
                    raw_denied, handed_timeouts, updates >>
    /\ UNCHANGED otherVars

HttpServices == { "http", "https", "http-proxy", "https-alt" }
HttpPorts    == { 80, 443, 8080, 8443 }

\* result.confidence = 15, losing what was there
HttpConfidenceReset(confidence) == HttpBonus

\* min(100, result.confidence + 15)
HttpConfidence(confidence) == Min(MaxConfidence, confidence + HttpBonus)

\* _analyze_http_service when one of the two requests is answered
_analyze_http_service(result, status, server) ==
    [result EXCEPT !.http_server = server,
                   !.http_status = status,
                   !.confidence = HttpConfidence(result.confidence)]

\* _analyze_http_service when a request is answered and the handling of the
\* answer raises after the server and the status were stored, and no later
\* request is answered: the bare except goes on and the loop ends
_analyze_http_service_raises(result, status, server) ==
    [result EXCEPT !.http_server = server,
                   !.http_status = status]

SkipHttpAnalysis ==
    /\ pc = "http_analysis"
    /\ idx = 0
    /\ pc' = "build"
    /\ UNCHANGED << params, CAPABILITIES, idx, ports, max_workers, adaptive_timeout,
                    timeout_history, stats, results, tasks, output, engines_run, signals,
                    raw_denied, handed_timeouts, updates >>
    /\ UNCHANGED otherVars

\* one turn of the loop of _enhance_http_analysis
AnalyzeHttp ==
    /\ pc = "http_analysis"
    /\ idx < Len(results)
    /\ idx' = idx + 1
    /\ LET result == results[idx + 1]
       IN  IF result.state = "open"
              /\ (result.service \in HttpServices \/ result.port \in HttpPorts)
           THEN \/ \* both requests fail
                   UNCHANGED results
                \/ \E status \in { 200 }, server \in { "Apache/2.4.49" } :
                     \/ results' = ReplaceAt(results, idx + 1,
                                             _analyze_http_service(result, status, server))
                     \/ results' = ReplaceAt(results, idx + 1,
                                             _analyze_http_service_raises(result, status,
                                                                          server))
           ELSE UNCHANGED results
    /\ UNCHANGED << params, CAPABILITIES, pc, ports, max_workers, adaptive_timeout,
                    timeout_history, stats, tasks, output, engines_run, signals,
                    raw_denied, handed_timeouts, updates >>
    /\ UNCHANGED otherVars

EndHttpAnalysis ==
    /\ pc = "http_analysis"
    /\ idx = Len(results)
    /\ pc' = "build"
    /\ idx' = 0
    /\ UNCHANGED << params, CAPABILITIES, ports, max_workers, adaptive_timeout,
                    timeout_history, stats, results, tasks, output, engines_run, signals,
                    raw_denied, handed_timeouts, updates >>
    /\ UNCHANGED otherVars

(***************************************************************************)
(* _map_vulnerabilities and CVE_DATABASE.  The lookup key is text: the     *)
(* service name passed through str.title(), a space, the version.          *)
(***************************************************************************)
LowerLetters == << "a", "b", "c", "d", "e", "f", "g", "h", "i", "j", "k", "l", "m", "n", "o", "p", "q", "r", "s", "t", "u", "v", "w", "x", "y", "z" >>
UpperLetters == << "A", "B", "C", "D", "E", "F", "G", "H", "I", "J", "K", "L", "M", "N", "O", "P", "Q", "R", "S", "T", "U", "V", "W", "X", "Y", "Z" >>

IsLower(c) == \E k \in DOMAIN LowerLetters : LowerLetters[k] = c
IsUpper(c) == \E k \in DOMAIN UpperLetters : UpperLetters[k] = c
IsCased(c) == IsLower(c) \/ IsUpper(c)

ToUpper(c) ==
    IF IsLower(c) THEN UpperLetters[CHOOSE k \in DOMAIN LowerLetters : LowerLetters[k] = c]
    ELSE c

ToLower(c) ==
    IF IsUpper(c) THEN LowerLetters[CHOOSE k \in DOMAIN UpperLetters : UpperLetters[k] = c]
    ELSE c

\* str.title(): a cased character is upper-cased when the character before it is
\* not cased (or there is none), lower-cased otherwise
Title(s) ==
    [ i \in 1..Len(s) |->
        IF i = 1 \/ ~IsCased(s[i - 1]) THEN ToUpper(s[i]) ELSE ToLower(s[i]) ]

\* the characters of the service names and versions a result can carry
Text(t) ==
    CASE
         t = "Apache" -> << "A", "p", "a", "c", "h", "e" >>
      [] t = "apache" -> << "a", "p", "a", "c", "h", "e" >>
      [] t = "Apache HTTP Server" -> << "A", "p", "a", "c", "h", "e", " ", "H", "T", "T", "P", " ", "S", "e", "r", "v", "e", "r" >>
      [] t = "nginx" -> << "n", "g", "i", "n", "x" >>
      [] t = "OpenSSH" -> << "O", "p", "e", "n", "S", "S", "H" >>
      [] t = "Redis" -> << "R", "e", "d", "i", "s" >>
      [] t = "http" -> << "h", "t", "t", "p" >>
      [] t = "https" -> << "h", "t", "t", "p", "s" >>
      [] t = "ftp" -> << "f", "t", "p" >>
      [] t = "ssh" -> << "s", "s", "h" >>
      [] t = "http-alt" -> << "h", "t", "t", "p", "-", "a", "l", "t" >>
      [] t = "port-8000" -> << "p", "o", "r", "t", "-", "8", "0", "0", "0" >>
      [] t = "port-N" -> << "p", "o", "r", "t", "-", "N" >>
      [] t = "unknown" -> << "u", "n", "k", "n", "o", "w", "n" >>
      [] t = "2.4.49" -> << "2", ".", "4", ".", "4", "9" >>
      [] t = "2.4.50" -> << "2", ".", "4", ".", "5", "0" >>
      [] t = "1.6.2" -> << "1", ".", "6", ".", "2" >>
      [] t = "7.4" -> << "7", ".", "4" >>
      [] t = "5.0.7" -> << "5", ".", "0", ".", "7" >>
      [] t = "9.9" -> << "9", ".", "9" >>
      [] t = "Generic HTTP" -> << "G", "e", "n", "e", "r", "i", "c", " ", "H", "T", "T", "P" >>
      [] t = "Generic FTP" -> << "G", "e", "n", "e", "r", "i", "c", " ", "F", "T", "P" >>

\* f"{result.service.title()} {result.version}"
ServiceKey(service, version) == Title(Text(service)) \o << " " >> \o Text(version)

CVE_DATABASE ==
    <<
       [key  |-> << "A", "p", "a", "c", "h", "e", " ", "2", ".", "4", ".", "4", "9" >>,
        cves |-> << "CVE-2021-41773", "CVE-2021-42013" >>],
       [key  |-> << "A", "p", "a", "c", "h", "e", " ", "2", ".", "4", ".", "5", "0" >>,
        cves |-> << "CVE-2021-42013" >>],
       [key  |-> << "A", "p", "a", "c", "h", "e", " ", "2", ".", "4", ".", "4", "4" >>,
        cves |-> << "CVE-2020-9490", "CVE-2020-11984", "CVE-2020-11993" >>],
       [key  |-> << "A", "p", "a", "c", "h", "e", " ", "2", ".", "4", ".", "4", "8" >>,
        cves |-> << "CVE-2019-17567" >>],
       [key  |-> << "O", "p", "e", "n", "S", "S", "H", " ", "7", ".", "4" >>,
        cves |-> << "CVE-2018-15473" >>],
       [key  |-> << "O", "p", "e", "n", "S", "S", "H", " ", "7", ".", "7" >>,
        cves |-> << "CVE-2018-15919" >>],
       [key  |-> << "O", "p", "e", "n", "S", "S", "H", " ", "7", ".", "9", "p", "1" >>,
        cves |-> << "CVE-2019-6110", "CVE-2019-6111" >>],
       [key  |-> << "O", "p", "e", "n", "S", "S", "H", " ", "8", ".", "5" >>,
        cves |-> << "CVE-2021-28041" >>],
       [key  |-> << "O", "p", "e", "n", "S", "S", "H", " ", "9", ".", "3", "p", "2" >>,
        cves |-> << "CVE-2023-38408" >>],
       [key  |-> << "n", "g", "i", "n", "x", " ", "1", ".", "6", ".", "2" >>,
        cves |-> << "CVE-2014-3616" >>],
       [key  |-> << "n", "g", "i", "n", "x", " ", "1", ".", "9", ".", "1", "0" >>,
        cves |-> << "CVE-2016-0742", "CVE-2016-0746", "CVE-2016-0747" >>],
       [key  |-> << "n", "g", "i", "n", "x", " ", "1", ".", "2", "0", ".", "0" >>,
        cves |-> << "CVE-2021-23017" >>],
       [key  |-> << "M", "y", "S", "Q", "L", " ", "5", ".", "7", ".", "3", "1" >>,
        cves |-> << "CVE-2018-2562", "CVE-2020-2574" >>],
       [key  |-> << "M", "y", "S", "Q", "L", " ", "8", ".", "0", ".", "2", "2" >>,
        cves |-> << "CVE-2020-2578", "CVE-2020-2621" >>],
       [key  |-> << "M", "a", "r", "i", "a", "D", "B", " ", "1", "0", ".", "2", ".", "3", "6" >>,
        cves |-> << "CVE-2021-27928" >>],
       [key  |-> << "P", "o", "s", "t", "g", "r", "e", "S", "Q", "L", " ", "1", "3", ".", "4" >>,
        cves |-> << "CVE-2021-32027", "CVE-2021-32028" >>],
       [key  |-> << "R", "e", "d", "i", "s", " ", "5", ".", "0", ".", "7" >>,
        cves |-> << "CVE-2020-14147" >>],
       [key  |-> << "M", "o", "n", "g", "o", "D", "B", " ", "4", ".", "0", ".", "1", "2" >>,
        cves |-> << "CVE-2019-2386", "CVE-2019-2389" >>],
       [key  |-> << "E", "l", "a", "s", "t", "i", "c", "s", "e", "a", "r", "c", "h", " ", "7", ".", "9", ".", "0" >>,
        cves |-> << "CVE-2020-7019" >>],
       [key  |-> << "P", "H", "P", " ", "7", ".", "4", ".", "2", "8" >>,
        cves |-> << "CVE-2021-21708" >>],
       [key  |-> << "P", "H", "P", " ", "8", ".", "0", ".", "3", "0" >>,
        cves |-> << "CVE-2023-3824" >>],
       [key  |-> << "O", "p", "e", "n", "S", "S", "L", " ", "1", ".", "0", ".", "1", "g" >>,
        cves |-> << "CVE-2014-0160" >>],
       [key  |-> << "O", "p", "e", "n", "S", "S", "L", " ", "1", ".", "0", ".", "2", "k" >>,
        cves |-> << "CVE-2017-3731", "CVE-2017-3732" >>]
    >>

\* service_key in CVE_DATABASE
InDatabase(key) == \E k \in DOMAIN CVE_DATABASE : CVE_DATABASE[k].key = key

\* CVE_DATABASE[service_key]
DatabaseEntry(key) ==
    CVE_DATABASE[CHOOSE k \in DOMAIN CVE_DATABASE : CVE_DATABASE[k].key = key].cves

NvdPrefix == "https://nvd.nist.gov/vuln/detail/"

\* the list attached as result.vulnerabilities, cut to its first id
AttachedFirstOnly(ids) == IF ids = << >> THEN ids ELSE << ids[1] >>

\* the list attached as result.vulnerabilities: the table's list itself
Attached(ids) == ids

_map_vulnerabilities(result) ==
    LET service_key == ServiceKey(result.service, result.version)
    IN  IF InDatabase(service_key)
        THEN LET vulnerabilities == Attached(DatabaseEntry(service_key))
             IN  [result EXCEPT
                    !.vulnerabilities = vulnerabilities,
                    !.cves = [ k \in DOMAIN vulnerabilities |->
                                 [id |-> vulnerabilities[k], service |-> result.service,
                                  version |-> result.version,
                                  url |-> << NvdPrefix, vulnerabilities[k] >>] ]]
        ELSE result

\* the first loop of _build_result
MapVulnerabilities(rs) ==
    [ i \in DOMAIN rs |->
        IF rs[i].state = "open" /\ rs[i].service # "" /\ rs[i].version # ""
        THEN _map_vulnerabilities(rs[i])
        ELSE rs[i] ]

\* _build_result: the vulnerability mapping, then the report, with the
\* engine-used field it fills in
_build_result ==
    /\ pc = "build"
    /\ pc' = "done"
    /\ results' = MapVulnerabilities(results)
    /\ output' = MainPrints(Report(params.engine))
    /\ UNCHANGED << params, CAPABILITIES, idx, ports, max_workers, adaptive_timeout,
                    timeout_history, stats, tasks, engines_run, signals,
                    raw_denied, handed_timeouts, updates >>
    /\ UNCHANGED otherVars

Next ==
    \/ main
    \/ Interrupt
    \/ StartScan
    \/ _masscan_scan
    \/ _syn_scan
    \/ _nmap_scan
    \/ ConnectEnter
    \/ \E i \in DOMAIN tasks : TaskStart(i)
    \/ \E i \in DOMAIN tasks : scan_port(i)
    \/ ConnectExit
    \/ SkipServiceDetection
    \/ DetectService
    \/ EndServiceDetection
    \/ SkipHttpAnalysis
    \/ AnalyzeHttp
    \/ EndHttpAnalysis
    \/ _build_result

Spec == Init /\ [][Next]_vars

(***************************************************************************)
(* The scan under fairness.  Every step of main() and scan() is a call     *)
(* that returns: the sockets, scapy.sr, the masscan subprocess and the     *)
(* requests have timeouts, and the executor runs every task it was given.  *)
(* A step that can be taken is therefore taken: weak fairness of every     *)
(* step.  For StartScan and _build_result the fairness condition is        *)
(* written out, with their enabling conditions pc = "start" and            *)
(* pc = "build" in the place of ENABLED.  The scans are those of one port  *)
(* expression of at most one port.                                         *)
(***************************************************************************)
LivePortSpecs == { << "x" >>, Tok(1) }

LiveInit ==
    /\ IdleParse
    /\ IdleSelect
    /\ stdin \in { d \in StdinDocuments :
                      d \in Malformed \/ d.params.ports \in LivePortSpecs }
    /\ \E caps \in CapabilityChoices : Unconstructed(NoParams, caps)

\* the steps the program takes by itself, but StartScan and _build_result
LightNext ==
    \/ main
    \/ _masscan_scan
    \/ _syn_scan
    \/ _nmap_scan
    \/ ConnectEnter
    \/ \E i \in DOMAIN tasks : TaskStart(i)
    \/ \E i \in DOMAIN tasks : scan_port(i)
    \/ ConnectExit
    \/ SkipServiceDetection
    \/ DetectService
    \/ EndServiceDetection
    \/ SkipHttpAnalysis
    \/ AnalyzeHttp
    \/ EndHttpAnalysis

Fairness ==
    /\ WF_vars(LightNext)
    /\ []<>(pc # "start") \/ []<><<StartScan>>_vars
    /\ []<>(pc # "build") \/ []<><<_build_result>>_vars

SpecLive == LiveInit /\ [][Next]_vars /\ Fairness

(***************************************************************************)
(* The parser harness: both _parse_ports applied to one port expression.   *)
(***************************************************************************)
Tok_80       == << "8", "0" >>
Tok_443      == << "4", "4", "3" >>
Tok_range    == << "8", "0", "0", "0", "-", "8", "0", "1", "0" >>
Tok_zero     == << "0" >>
Tok_over     == << "6", "5", "5", "3", "6" >>
Tok_word     == << "x" >>
Tok_badrange == << "x", "-", "y" >>
Tok_padded   == << " ", "2", "2", " " >>
Tok_reversed == << "1", "0", "-", "8" >>
Tok_edge     == << "6", "5", "5", "3", "4", "-", "6", "5", "5", "3", "7" >>

\* the tokens custom expressions are joined from: ports, a range, values out of
\* range, a word, a range of words, a padded port, a reversed range, a range
\* crossing the upper limit
TokenVocabulary ==
    { Tok_80, Tok_443, Tok_range, Tok_zero, Tok_over,
      Tok_word, Tok_badrange, Tok_padded, Tok_reversed, Tok_edge }

TokenSeqs == UNION { [ 1..n -> TokenVocabulary ] : n \in 1..MaxTokens }

\* what the imports find when no optional library is installed
NoCapabilities == [scapy |-> FALSE, nmap |-> FALSE, masscan |-> FALSE]

\* a scanner object that is not scanning
IdleScanner(where, history, timeout, rs, caps) ==
    /\ params = [engine |-> "auto", ports |-> << >>, threads |-> DefaultThreads,
                 timeout |-> timeout, show_closed |-> FALSE, show_filtered |-> FALSE]
    /\ CAPABILITIES = caps
    /\ pc = where
    /\ idx = 0
    /\ ports = << >>
    /\ max_workers = MaxWorkers(DefaultThreads)
    /\ adaptive_timeout = timeout
    /\ timeout_history = history
    /\ stats = NewStats
    /\ results = rs
    /\ tasks = << >>
    /\ output = NoOutput
    /\ engines_run = << >>
    /\ signals = {}
    /\ raw_denied = FALSE
    /\ handed_timeouts = {}
    /\ updates = 0
    /\ stdin = NoDocument
    /\ constructed = TRUE

ParseInit ==
    /\ IdleSelect
    /\ IdleScanner("idle", << >>, DefaultTimeout, << >>, NoCapabilities)
    /\ \/ tokens \in TokenSeqs
       \/ tokens \in { << name >> : name \in PresetNames }
    /\ port_spec = Join(tokens)
    /\ parsed = << >>
    /\ adv_parsed = [ok |-> TRUE, ports |-> << >>]
    /\ ppc = "ready"

EliteParse ==
    /\ ppc = "ready"
    /\ parsed' = _parse_ports(port_spec)
    /\ ppc' = "elite_done"
    /\ UNCHANGED << port_spec, tokens, adv_parsed >>
    /\ UNCHANGED nonParseVars

AdvancedParse ==
    /\ ppc = "elite_done"
    /\ adv_parsed' = Adv_parse_ports(port_spec)
    /\ ppc' = "parsed"
    /\ UNCHANGED << port_spec, tokens, parsed >>
    /\ UNCHANGED nonParseVars

ParseNext == EliteParse \/ AdvancedParse

SpecParse == ParseInit /\ [][ParseNext]_vars

(***************************************************************************)
(* The timeout harness: _update_adaptive_timeout applied to a window of    *)
(* any length up to max_timeout_samples.                                   *)
(***************************************************************************)
\* window lengths around the two thresholds of the function
WindowLens == { 0, MinSamples - 2, MinSamples - 1, MinSamples,
                max_timeout_samples - 1, max_timeout_samples }

\* where a window changes from one sample value to the other: near either end, so
\* that either value can sit at the 95th percentile
SplitPoints ==
    (0..MinSamples) \cup ((max_timeout_samples - MinSamples)..max_timeout_samples)

\* windows of one sample value followed by another (concatenated with the empty
\* sequence so that the value is held as a sequence)
Windows ==
    { [ i \in 1..n |-> IF i <= k THEN a ELSE b ] \o << >> :
        n \in WindowLens, k \in SplitPoints, a \in Samples, b \in Samples }

TimeoutInit ==
    /\ IdleParse
    /\ IdleSelect
    /\ \E history \in Windows, timeout \in TimeoutChoices :
         IdleScanner("timeout", history, timeout, << >>, NoCapabilities)

UpdateTimeout ==
    /\ pc = "timeout"
    /\ updates < MaxUpdates
    /\ \E response_time \in Samples :
         LET upd == _update_adaptive_timeout(timeout_history, adaptive_timeout,
                                             response_time)
         IN  /\ timeout_history' = upd.timeout_history
             /\ adaptive_timeout' = upd.adaptive_timeout
    /\ updates' = updates + 1
    /\ UNCHANGED << params, CAPABILITIES, pc, idx, ports, max_workers, stats, results,
                    tasks, output, engines_run, signals, raw_denied, handed_timeouts >>
    /\ UNCHANGED otherVars

TimeoutNext == UpdateTimeout

SpecTimeout == TimeoutInit /\ [][TimeoutNext]_vars

(***************************************************************************)
(* The vulnerability harness: _build_result applied to one finding of any  *)
(* service name, version and state.                                        *)
(***************************************************************************)
VulnServices ==
    { "Apache", "apache", "Apache HTTP Server", "nginx", "OpenSSH", "Redis", "http", "" }

VulnVersions == { "2.4.49", "2.4.50", "1.6.2", "7.4", "5.0.7", "9.9", "" }

VulnStates == { "open", "closed" }

VulnInit ==
    /\ IdleParse
    /\ IdleSelect
    /\ \E service \in VulnServices, version \in VulnVersions, state \in VulnStates :
         IdleScanner("build", << >>, DefaultTimeout,
                     << PortResult(80, state, service, version, "", 40,
                                   ConnectConfidence) >>, NoCapabilities)

VulnNext == _build_result

SpecVuln == VulnInit /\ [][VulnNext]_vars

(***************************************************************************)
(* The selection harness: _select_best_engine applied to any port count    *)
(* around its two thresholds, any capabilities and either outcome of the   *)
(* raw socket test.                                                        *)
(***************************************************************************)
PortCounts ==
    { 1, SynThreshold, SynThreshold + 1, MasscanThreshold, MasscanThreshold + 1, MaxPort }

RawSocketOutcomes == { "opens", "PermissionError" }

SelectInit ==
    /\ IdleParse
    /\ rate_limit = 0
    /\ last_send_time = 0
    /\ clock = 0
    /\ frames = << >>
    /\ host_info = [os_family |-> "", os_confidence |-> 0]
    /\ icmp_ttl = 0
    /\ num_ports \in PortCounts
    /\ raw_socket \in RawSocketOutcomes
    /\ selected = ""
    /\ \E caps \in CapabilityChoices :
         IdleScanner("select", << >>, DefaultTimeout, << >>, caps)

SelectEngine ==
    /\ pc = "select"
    /\ selected' = _select_best_engine(num_ports, CAPABILITIES, raw_socket = "opens")
    /\ pc' = "selected"
    /\ UNCHANGED << params, CAPABILITIES, idx, ports, max_workers, adaptive_timeout,
                    timeout_history, stats, results, tasks, output, engines_run, signals,
                    raw_denied, handed_timeouts, updates >>
    /\ UNCHANGED << parseVars, mainVars, poolVars, osVars, num_ports, raw_socket >>

SelectNext == SelectEngine

SpecSelect == SelectInit /\ [][SelectNext]_vars

(***************************************************************************)
(* The pool harness: the tasks of _connect_scan followed statement by      *)
(* statement.  The pool threads run scan_port concurrently and may be      *)
(* switched between any two statements; no statement of scan_port,         *)
(* _apply_rate_limit or _update_adaptive_timeout takes a lock.  Times are  *)
(* in milliseconds.                                                        *)
(***************************************************************************)
MaxPoolTasks == 2
MaxTicks     == 3

\* what time.time() returns when the pool starts
StartClock == 10

\* params.get('rate_limit', 0): no limit, or 500 probes per second
PoolRates == { 0, 500 }

\* min_interval = 1.0 / self.rate_limit
MinInterval(rate) == 1000 \div rate

PoolPorts == [ i \in 1..MaxPoolTasks |-> 79 + i ] \o << >>

\* the latency window when the pool starts: empty, one short of the length where
\* the timeout is recomputed, full
PoolHistories ==
    { << >>,
      [ k \in 1..(MinSamples - 1) |-> 40 ] \o << >>,
      [ k \in 1..max_timeout_samples |-> 40 ] \o << >> }

\* a task in the queue: its position, the locals now, response_time and p95_time,
\* when its sleep ends, when its probe went out (-1: not yet) and how its
\* connect_ex ended
NewFrame ==
    [at |-> "queued", now |-> 0, wake |-> 0, sent |-> -1, outcome |-> "",
     response_time |-> 0, p95_time |-> 0, open_ports |-> 0]

PoolInit ==
    /\ IdleParse
    /\ num_ports = 0
    /\ raw_socket = "opens"
    /\ selected = ""
    /\ stdin = NoDocument
    /\ constructed = TRUE
    /\ rate_limit \in PoolRates
    /\ last_send_time = 0
    /\ clock = StartClock
    /\ frames = [ i \in 1..MaxPoolTasks |-> NewFrame ]
    /\ host_info = [os_family |-> "", os_confidence |-> 0]
    /\ icmp_ttl = 0
    /\ params = NoParams
    /\ CAPABILITIES = NoCapabilities
    /\ pc = "connect_pool"
    /\ idx = 0
    /\ ports = PoolPorts
    /\ max_workers \in 1..MaxPoolTasks
    /\ adaptive_timeout = DefaultTimeout
    /\ timeout_history \in PoolHistories
    /\ stats = NewStats
    /\ results = << >>
    /\ tasks = << >>
    /\ output = NoOutput
    /\ engines_run = << "connect" >>
    /\ signals = {}
    /\ raw_denied = FALSE
    /\ handed_timeouts = {}
    /\ updates = 0

\* the variables no statement of scan_port assigns
poolFixed ==
    << port_spec, tokens, parsed, adv_parsed, ppc, stdin, constructed, num_ports,
       raw_socket, selected, rate_limit, host_info, icmp_ttl, params, CAPABILITIES,
       pc, idx, ports,
       max_workers, tasks, output, engines_run, signals, raw_denied, updates >>

At(i, where) == frames[i].at = where

Goto(i, where) == frames' = [frames EXCEPT ![i].at = where]

\* the tasks a pool thread is running
PoolRunning == { i \in DOMAIN frames : frames[i].at \notin { "queued", "done" } }

\* time passes
Tick ==
    /\ pc = "connect_pool"
    /\ frames # << >>
    /\ clock < StartClock + MaxTicks
    /\ clock' = clock + 1
    /\ UNCHANGED << poolFixed, last_send_time, frames, adaptive_timeout,
                    timeout_history, stats, results, handed_timeouts >>

\* a free pool thread takes the next task of the queue and calls scan_port
PoolTake(i) ==
    /\ At(i, "queued")
    /\ \A j \in 1..(i - 1) : ~At(j, "queued")
    /\ Cardinality(PoolRunning) < max_workers
    /\ Goto(i, "rate")
    /\ UNCHANGED << poolFixed, last_send_time, clock, adaptive_timeout,
                    timeout_history, stats, results, handed_timeouts >>

\* _apply_rate_limit: if self.rate_limit > 0, min_interval and now = time.time();
\* without a limit the function returns at once and the probe goes out
RateEnter(i) ==
    /\ At(i, "rate")
    /\ frames' = IF rate_limit > 0
                 THEN [frames EXCEPT ![i].at = "rate_read", ![i].now = clock]
                 ELSE [frames EXCEPT ![i].at = "connect", ![i].sent = clock]
    /\ UNCHANGED << poolFixed, last_send_time, clock, adaptive_timeout,
                    timeout_history, stats, results, handed_timeouts >>

\* elapsed = now - self.last_send_time; if elapsed < min_interval, time.sleep is
\* called for the difference
RateRead(i) ==
    /\ At(i, "rate_read")
    /\ LET elapsed == frames[i].now - last_send_time
       IN  frames' = IF elapsed < MinInterval(rate_limit)
                     THEN [frames EXCEPT ![i].at = "rate_sleep",
                                         ![i].wake = clock + MinInterval(rate_limit)
                                                           - elapsed]
                     ELSE [frames EXCEPT ![i].at = "rate_write"]
    /\ UNCHANGED << poolFixed, last_send_time, clock, adaptive_timeout,
                    timeout_history, stats, results, handed_timeouts >>

\* time.sleep returns
RateWake(i) ==
    /\ At(i, "rate_sleep")
    /\ clock >= frames[i].wake
    /\ Goto(i, "rate_write")
    /\ UNCHANGED << poolFixed, last_send_time, clock, adaptive_timeout,
                    timeout_history, stats, results, handed_timeouts >>

\* self.last_send_time = time.time(); the function returns and the probe goes out
RateWrite(i) ==
    /\ At(i, "rate_write")
    /\ last_send_time' = clock
    /\ frames' = [frames EXCEPT ![i].at = "connect", ![i].sent = clock]
    /\ UNCHANGED << poolFixed, clock, adaptive_timeout, timeout_history, stats,
                    results, handed_timeouts >>

\* sock.settimeout(self.adaptive_timeout) and the call of connect_ex
Connect(i) ==
    /\ At(i, "connect")
    /\ handed_timeouts' = handed_timeouts \cup { adaptive_timeout }
    /\ Goto(i, "wait")
    /\ UNCHANGED << poolFixed, last_send_time, clock, adaptive_timeout,
                    timeout_history, stats, results >>

\* connect_ex ends and scan_port takes its branch; on the open branch it goes up
\* to the read of self.stats['open_ports'] += 1, which has read the counter and
\* not yet written it
Answer(i) ==
    /\ At(i, "wait")
    /\ \E e \in ConnectEnds, response_time \in Latencies :
         LET branch == ConnectBranch(e)
             sent   == IF e.raised = "" THEN [stats EXCEPT !.packets_sent = @ + 1]
                       ELSE stats
             next   == IF branch = "open" THEN "count_open" ELSE "done"
         IN  /\ frames' = [frames EXCEPT ![i].at = next,
                                         ![i].outcome = ConnectSignal(e),
                                         ![i].response_time = response_time,
                                         ![i].open_ports = stats.open_ports]
             /\ CASE branch = "open" ->
                       /\ stats' = sent
                       /\ UNCHANGED results
                  [] branch = "closed" ->
                       /\ stats' = [sent EXCEPT !.closed_ports = @ + 1]
                       /\ results' = IF params.show_closed
                                     THEN Append(results,
                                            PortResult(ports[i], "closed", "unknown", "",
                                                       "", response_time, 0))
                                     ELSE results
                  [] branch = "filtered" ->
                       /\ stats' = [sent EXCEPT !.timeouts = @ + 1,
                                                !.filtered_ports = @ + 1]
                       /\ results' = IF params.show_filtered
                                     THEN Append(results,
                                            PortResult(ports[i], "filtered", "unknown",
                                                       "", "", 0,
                                                       ConnectFilteredConfidence))
                                     ELSE results
                  [] OTHER ->
                       /\ stats' = [sent EXCEPT !.errors = @ + 1]
                       /\ UNCHANGED results
    /\ UNCHANGED << poolFixed, last_send_time, clock, adaptive_timeout,
                    timeout_history, handed_timeouts >>

\* the write of self.stats['open_ports'] += 1 with the value read, and the rest
\* of the open branch up to the call of _update_adaptive_timeout
CountOpen(i) ==
    /\ At(i, "count_open")
    /\ stats' = [stats EXCEPT !.open_ports = frames[i].open_ports + 1,
                              !.packets_received = @ + 1]
    /\ results' = Append(results,
                         PortResult(ports[i], "open", ServiceName(ports[i]), "", "",
                                    frames[i].response_time, ConnectConfidence))
    /\ Goto(i, "update")
    /\ UNCHANGED << poolFixed, last_send_time, clock, adaptive_timeout,
                    timeout_history, handed_timeouts >>

\* _update_adaptive_timeout: self.timeout_history.append(response_time)
UpdAppend(i) ==
    /\ At(i, "update")
    /\ timeout_history' = Append(timeout_history, frames[i].response_time)
    /\ Goto(i, "upd_trim")
    /\ UNCHANGED << poolFixed, last_send_time, clock, adaptive_timeout, stats,
                    results, handed_timeouts >>

\* if len(self.timeout_history) > self.max_timeout_samples: pop(0)
UpdTrim(i) ==
    /\ At(i, "upd_trim")
    /\ timeout_history' = IF Len(timeout_history) > max_timeout_samples
                          THEN Tail(timeout_history) ELSE timeout_history
    /\ Goto(i, "upd_test")
    /\ UNCHANGED << poolFixed, last_send_time, clock, adaptive_timeout, stats,
                    results, handed_timeouts >>

\* if len(self.timeout_history) >= 10: the sorted copy and its 95th percentile
UpdTest(i) ==
    /\ At(i, "upd_test")
    /\ frames' = IF Len(timeout_history) >= MinSamples
                 THEN [frames EXCEPT ![i].at = "upd_write",
                                     ![i].p95_time = P95Time(timeout_history)]
                 ELSE [frames EXCEPT ![i].at = "done"]
    /\ UNCHANGED << poolFixed, last_send_time, clock, adaptive_timeout,
                    timeout_history, stats, results, handed_timeouts >>

\* self.adaptive_timeout = max(0.5, min(10.0, p95_time * 1.5))
UpdWrite(i) ==
    /\ At(i, "upd_write")
    /\ adaptive_timeout' = Clamp((frames[i].p95_time * 3) \div 2)
    /\ Goto(i, "done")
    /\ UNCHANGED << poolFixed, last_send_time, clock, timeout_history, stats,
                    results, handed_timeouts >>

PoolNext ==
    \/ Tick
    \/ \E i \in DOMAIN frames : PoolTake(i)
    \/ \E i \in DOMAIN frames : RateEnter(i)
    \/ \E i \in DOMAIN frames : RateRead(i)
    \/ \E i \in DOMAIN frames : RateWake(i)
    \/ \E i \in DOMAIN frames : RateWrite(i)
    \/ \E i \in DOMAIN frames : Connect(i)
    \/ \E i \in DOMAIN frames : Answer(i)
    \/ \E i \in DOMAIN frames : CountOpen(i)
    \/ \E i \in DOMAIN frames : UpdAppend(i)
    \/ \E i \in DOMAIN frames : UpdTrim(i)
    \/ \E i \in DOMAIN frames : UpdTest(i)
    \/ \E i \in DOMAIN frames : UpdWrite(i)

SpecPool == PoolInit /\ [][PoolNext]_vars

(***************************************************************************)
(* The OS harness: _detect_os applied to any answer to its ICMP probe and  *)
(* any open services.                                                      *)
(***************************************************************************)
TtlGuessConfidence == 60
SmbGuessConfidence == 80
SshGuessConfidence == 70

\* the TTL ranges of the three guesses, and the family of each
TtlFamily(ttl) ==
    IF 60 <= ttl /\ ttl <= 64 THEN "Linux/Unix"
    ELSE IF 120 <= ttl /\ ttl <= 128 THEN "Windows"
    ELSE IF 250 <= ttl /\ ttl <= 255 THEN "Cisco/Network Device"
    ELSE ""

\* the TTL-based part: nothing changes without scapy, without an answer or for a
\* TTL outside the three ranges
TtlDetection(info, scapy, ttl) ==
    IF scapy /\ ttl # 0 /\ TtlFamily(ttl) # ""
    THEN [os_family |-> TtlFamily(ttl), os_confidence |-> TtlGuessConfidence]
    ELSE info

\* 'OpenSSH' in r.version
NamesOpenSSH(version) == version \in { "OpenSSH 8.2" }

\* services = [r.service for r in self.results if r.state == 'open']
OpenServices(rs) == { rs[i].service : i \in { k \in DOMAIN rs : rs[k].state = "open" } }

\* 'microsoft-ds' in services or 'ms-wbt-server' in services
SmbSeen(rs) == "microsoft-ds" \in OpenServices(rs) \/ "ms-wbt-server" \in OpenServices(rs)

\* 'ssh' in services and any('OpenSSH' in r.version for r in results if r.service == 'ssh')
OpenSshSeen(rs) ==
    /\ "ssh" \in OpenServices(rs)
    /\ \E i \in DOMAIN rs : rs[i].service = "ssh" /\ NamesOpenSSH(rs[i].version)

\* the service-based part
ServiceDetection(info, rs) ==
    LET smb == IF SmbSeen(rs)
               THEN [os_family |-> "Windows",
                     os_confidence |-> Max(info.os_confidence, SmbGuessConfidence)]
               ELSE info
    IN  IF OpenSshSeen(rs) /\ smb.os_family = ""
        THEN [os_family |-> "Linux/Unix", os_confidence |-> SshGuessConfidence]
        ELSE smb

\* TTLs at the edges of the three ranges, and no answer
TtlChoices == { 0, 59, 60, 64, 65, 119, 120, 128, 129, 249, 250, 255 }

OsCandidates ==
    << PortResult(445, "open", "microsoft-ds", "", "", 40, ConnectConfidence),
       PortResult(22, "open", "ssh", "OpenSSH 8.2", "", 40, ConnectConfidence),
       PortResult(22, "open", "ssh", "8.2", "", 40, ConnectConfidence) >>

\* the result lists made of some of the candidates, in order
OsResults ==
    { ConcatOver([ k \in DOMAIN OsCandidates |->
                     IF k \in S THEN << OsCandidates[k] >> ELSE << >> ],
                 1, Len(OsCandidates)) : S \in SUBSET DOMAIN OsCandidates }

OsInit ==
    /\ IdleParse
    /\ num_ports = 0
    /\ raw_socket = "opens"
    /\ selected = ""
    /\ rate_limit = 0
    /\ last_send_time = 0
    /\ clock = 0
    /\ frames = << >>
    /\ host_info = [os_family |-> "", os_confidence |-> 0]
    /\ icmp_ttl \in TtlChoices
    /\ \E rs \in OsResults, scapy \in BOOLEAN :
         IdleScanner("os_detection", << >>, DefaultTimeout, rs,
                     [scapy |-> scapy, nmap |-> FALSE, masscan |-> FALSE])

_detect_os ==
    /\ pc = "os_detection"
    /\ host_info' = ServiceDetection(TtlDetection(host_info, CAPABILITIES.scapy, icmp_ttl),
                                     results)
    /\ pc' = "os_done"
    /\ UNCHANGED << params, CAPABILITIES, idx, ports, max_workers, adaptive_timeout,
                    timeout_history, stats, results, tasks, output, engines_run, signals,
                    raw_denied, handed_timeouts, updates >>
    /\ UNCHANGED << parseVars, mainVars, selectVars, poolVars, icmp_ttl >>

OsNext == _detect_os

SpecOs == OsInit /\ [][OsNext]_vars

(***************************************************************************)
(* ServiceDetector of the older scanner (tools/scanning/portscan.py): the  *)
(* confidence it returns.                                                  *)
(***************************************************************************)
AdvMatchConfidence    == 90
AdvProbeConfidence    == 50
AdvBannerConfidence   == 30
AdvNoBannerConfidence == 10

\* _probe_service: the confidence it returns for a fingerprint, matched or not
Adv_probe_service(matched) == IF matched THEN AdvMatchConfidence ELSE AdvProbeConfidence

\* _generic_detection: the confidence it returns when the connection succeeds
Adv_generic_detection(banner) ==
    IF banner # "" THEN AdvBannerConfidence ELSE AdvNoBannerConfidence

(***************************************************************************)
(* Properties.                                                             *)
(***************************************************************************)
StrictlyAscending(seq) == \A i \in 1..(Len(seq) - 1) : seq[i] < seq[i + 1]

\* C1: whatever the ports parameter (preset name or custom expression), the list
\* ElitePortScanner._parse_ports returns holds only integers of 1..65535 and is
\* strictly ascending, hence free of duplicates.
C1_ParsedPortsValid ==
    ppc \in { "elite_done", "parsed" } =>
        /\ \A i \in DOMAIN parsed : parsed[i] \in MinPort..MaxPort
        /\ StrictlyAscending(parsed)

\* an expression naming port 80 twice and a value above the range parsed to [80]
C1_Witness ==
    /\ ppc = "parsed"
    /\ Len(tokens) = 3
    /\ \E i, j, k \in DOMAIN tokens :
         i # j /\ tokens[i] = Tok_80 /\ tokens[j] = Tok_80 /\ tokens[k] = Tok_over
    /\ parsed = << 80 >>

\* the ports a token names when it is well formed: an integer, or start-end
TokenNames(token) ==
    LET t == Strip(token)
    IN  IF AllDigits(t) THEN { DecimalValue(t) }
        ELSE IF Contains(t, "-")
        THEN LET halves == SplitOnce(t, "-")
             IN  IF AllDigits(halves[1]) /\ AllDigits(halves[2])
                 THEN DecimalValue(halves[1]) .. DecimalValue(halves[2])
                 ELSE {}
        ELSE {}

NamedPorts(toks) ==
    { p \in UNION { TokenNames(toks[i]) : i \in DOMAIN toks } : p \in MinPort..MaxPort }

\* C2: for a custom expression, _parse_ports (of either scanner) returns exactly the
\* in-range ports its well-formed tokens name; a malformed token adds nothing and
\* never aborts the parse.
C2_ExactlyNamedPorts ==
    (ppc = "parsed" /\ port_spec \notin PresetNames) =>
        /\ parsed = Sorted(NamedPorts(tokens))
        /\ adv_parsed.ok
        /\ adv_parsed.ports = Sorted(NamedPorts(tokens))

\* C3: every call of _update_adaptive_timeout that recomputes (the window holds at
\* least 10 samples) leaves adaptive_timeout within 0.5 s .. 10 s, whatever the
\* samples.
C3_RecomputeClamped ==
    (pc = "timeout" /\ updates >= 1 /\ Len(timeout_history) >= MinSamples) =>
        (FloorTimeout <= adaptive_timeout /\ adaptive_timeout <= CeilingTimeout)

\* a recompute over a full window of zero and negative samples ended at the floor
C3_Witness ==
    /\ pc = "timeout"
    /\ updates >= 1
    /\ Len(timeout_history) = max_timeout_samples
    /\ \A i \in DOMAIN timeout_history : timeout_history[i] <= 0
    /\ \E i \in DOMAIN timeout_history : timeout_history[i] < 0
    /\ adaptive_timeout = FloorTimeout

\* C4: every timeout handed to a probe lies within 0.5 s .. 10 s, whatever the
\* caller's base timeout, the phase before 10 samples included.
C4_ProbeTimeoutBounded ==
    \A t \in handed_timeouts : FloorTimeout <= t /\ t <= CeilingTimeout

\* C5: during a connect scan the tasks executing at once never exceed
\* min(threads, 500).
C5_WorkerCeiling ==
    Cardinality(Running) <= Min(params.threads, WorkerCap)

\* one thread, two ports: one task runs while the other waits in the queue
C5_Witness ==
    /\ pc = "connect_pool"
    /\ params.threads = 1
    /\ Cardinality(Running) = 1
    /\ \E i \in DOMAIN tasks : tasks[i] = "queued"

\* C6: every PortResult with state open comes from a positive answer for its port:
\* connect_ex returning 0, a SYN/ACK, a port record of masscan, nmap's state open.
C6_OpenFromPositiveSignal ==
    \A i \in DOMAIN results :
        results[i].state = "open" =>
            \E s \in signals : s.port = results[i].port /\ s.kind \in PositiveKinds

\* a finished half-open scan of two ports, one reported open after its SYN/ACK,
\* the other not reported open
C6_Witness ==
    /\ pc = "done"
    /\ engines_run = << "syn" >>
    /\ Len(ports) = 2
    /\ \E i \in DOMAIN results : results[i].state = "open"
    /\ \E j \in DOMAIN ports :
         \A i \in DOMAIN results : results[i].port = ports[j] => results[i].state # "open"
    /\ \A s \in signals : s.kind = "synack"

\* C7: engine syn requested, the half-open engine refused its raw socket: the scan
\* completes with success true and the report's scan_type is connect.  (Stated for
\* the runs whose thread count lets the connect engine start.)
C7_ReportsConnect ==
    (pc = "done" /\ params.engine = "syn" /\ raw_denied /\ params.threads >= 1) =>
        (output.success /\ output.scan_type = "connect")

Available(engine, caps) ==
    CASE engine = "masscan" -> caps.masscan
      [] engine = "syn"     -> caps.scapy
      [] engine = "nmap"    -> caps.nmap
      [] OTHER              -> TRUE

\* the hand-over the code makes from an engine that raised
HandOver(engine, caps) ==
    CASE engine = "masscan" -> IF caps.scapy THEN "syn" ELSE "connect"
      [] OTHER              -> "connect"

Below(engine, caps) ==
    CASE engine = "masscan" -> IF caps.scapy THEN "syn"
                               ELSE IF caps.nmap THEN "nmap" ELSE "connect"
      [] engine = "syn"     -> IF caps.nmap THEN "nmap" ELSE "connect"
      [] OTHER              -> "connect"

C9_ConfidenceNeverDecreases ==
    [][\A i \in DOMAIN results : results'[i].confidence >= results[i].confidence]_vars

\* a result whose pattern match and HTTP analysis raised it to the ceiling
C9_Witness ==
    /\ pc = "done"
    /\ \E i \in DOMAIN results :
         /\ results[i].service = "Apache HTTP Server"
         /\ results[i].http_status = 200
         /\ results[i].confidence = MaxConfidence

\* C10: for every open result and every banner, the confidence recorded when a
\* fingerprint pattern matches is at least the confidence the result carries when
\* no pattern matches; in the older detector a matched fingerprint outranks every
\* outcome of the generic detection.
C10_MatchAtLeastGeneric ==
    /\ \A i \in DOMAIN results, matching \in Banners, other \in Banners :
         (/\ pc = "service_detection"
          /\ results[i].state = "open"
          /\ results[i].port \in FingerprintPorts
          /\ FirstMatch(results[i].port, matching) # 0
          /\ FirstMatch(results[i].port, other) = 0) =>
            _grab_banner_and_detect(results[i], matching).confidence
                >= _grab_banner_and_detect(results[i], other).confidence
    /\ \A banner \in Banners \cup { B_empty } :
         Adv_probe_service(TRUE) >= Adv_generic_detection(banner)

\* a half-open result (confidence 90) whose banner matched the pattern of
\* confidence 70 and kept its 90
C10_Witness ==
    /\ pc = "service_detection"
    /\ \E i \in DOMAIN results :
         /\ i <= idx
         /\ results[i].service = "Generic HTTP"
         /\ results[i].banner = B_http
         /\ results[i].confidence = SynConfidence

\* the ids stored under a key of the static table, none when the key is absent
IdsUnder(key) ==
    LET hits == { k \in DOMAIN CVE_DATABASE : CVE_DATABASE[k].key = key }
    IN  IF hits = {} THEN << >> ELSE CVE_DATABASE[CHOOSE k \in hits : TRUE].cves

C12_MalformedInputFails ==
    stdin \in Malformed =>
        /\ ~constructed
        /\ engines_run = << >>
        /\ handed_timeouts = {}
        /\ signals = {}
        /\ results = << >>
        /\ pc \in { "main", "done" }
        /\ pc = "done" =>
             /\ output.exit_code # 0
             /\ ~output.success
             /\ output.errors # << >>
             /\ "data" \notin output.keys
             /\ output.kind # "report"

\* main() has ended in its except Exception clause on a malformed document
C12_Witness ==
    /\ stdin \in Malformed
    /\ pc = "done"
    /\ output.kind = "exception"

\* C13: a run that has ended has written its document to standard output, and
\* the document has the three keys success, data and errors.
C13_OneDocumentOnStdout ==
    pc = "done" =>
        /\ output.stream = "stdout"
        /\ output.keys = { "success", "data", "errors" }

\* C14: a run whose port expression yields no valid port enters no engine and no
\* enrichment stage, ends with a failure document carrying an error and no
\* report, and exits with a non-zero code.
C14_NoPortsFatal ==
    (pc = "done" /\ constructed /\ ports = << >> /\ output.kind # "interrupt") =>
        /\ engines_run = << >>
        /\ results = << >>
        /\ ~output.success
        /\ output.errors # << >>
        /\ "data" \notin output.keys
        /\ output.exit_code # 0

\* C15: a run whose target name cannot be resolved, so that every probe of the
\* connect engine ended in the resolver's exception, ends with a failure
\* document and no report.
C15_UnresolvableTargetFails ==
    (/\ pc = "done"
     /\ engines_run = << "connect" >>
     /\ ports # << >>
     /\ Len(tasks) = Len(ports)
     /\ stats.errors = Len(ports)) =>
        /\ ~output.success
        /\ output.kind # "report"
        /\ output.errors # << >>

\* C16: what _select_best_engine returned is masscan exactly when masscan is
\* available and there are more than 10000 ports; otherwise syn exactly when
\* scapy is present, the raw socket opens and there are more than 100 ports;
\* otherwise nmap exactly when nmap is available; otherwise connect.
C16_SelectionOrder ==
    pc = "selected" =>
        LET fast == CAPABILITIES.masscan /\ num_ports > 10000
            raw  == CAPABILITIES.scapy /\ raw_socket = "opens" /\ num_ports > 100
        IN  /\ fast => selected = "masscan"
            /\ (~fast /\ raw) => selected = "syn"
            /\ (~fast /\ ~raw /\ CAPABILITIES.nmap) => selected = "nmap"
            /\ (~fast /\ ~raw /\ ~CAPABILITIES.nmap) => selected = "connect"

\* with every capability present and the raw socket open, 101 ports select syn
C16_Witness ==
    /\ pc = "selected"
    /\ num_ports = 101
    /\ CAPABILITIES = [scapy |-> TRUE, nmap |-> TRUE, masscan |-> TRUE]
    /\ raw_socket = "opens"
    /\ selected = "syn"

\* C17: once the half-open engine has handled the answer of a port, the batch
\* stays with that engine: no other engine is entered after it, whatever
\* exception the handling of one port raised.
C17_BatchStaysWithEngine ==
    (\E s \in signals : s.engine = "syn") =>
        engines_run[Len(engines_run)] = "syn"

\* a task is inside _update_adaptive_timeout, between its first write of the
\* latency window and its last statement
InWindowUpdate(i) == frames[i].at \in { "upd_trim", "upd_test", "upd_write" }

\* a task is inside the rate-limited part of _apply_rate_limit, between taking
\* the time and writing last_send_time
InRateUpdate(i) == frames[i].at \in { "rate_read", "rate_sleep", "rate_write" }

\* C18: no two tasks of the pool are at the same time inside an update of the
\* latency window, nor at the same time inside an update of last_send_time.
C18_UpdatesExclusive ==
    \A i, j \in DOMAIN frames :
        i # j => /\ ~(InWindowUpdate(i) /\ InWindowUpdate(j))
                 /\ ~(InRateUpdate(i) /\ InRateUpdate(j))

\* C19: with a rate limit set, the probes of any two tasks of the pool have gone
\* out at least the minimum interval apart.
C19_EmissionsSpaced ==
    rate_limit > 0 =>
        \A i, j \in DOMAIN frames :
            (i # j /\ frames[i].sent >= 0 /\ frames[j].sent >= frames[i].sent) =>
                frames[j].sent - frames[i].sent >= MinInterval(rate_limit)

\* the tasks whose connect_ex has ended with a given outcome
Ended_with(kind) == { i \in DOMAIN frames : frames[i].outcome = kind }

\* C20: in the connect engine the ports counted open are those whose connection
\* succeeded, the ports counted closed are those that refused, and the ports
\* counted filtered, and the timeouts, are those that did not answer within the
\* timeout.
C20_ConnectClassification ==
    (pc = "connect_pool" /\ frames # << >>) =>
        /\ stats.open_ports = Cardinality(Ended_with("connected"))
        /\ stats.closed_ports = Cardinality(Ended_with("refused"))
        /\ stats.filtered_ports = Cardinality(Ended_with("no_response"))
        /\ stats.timeouts = Cardinality(Ended_with("no_response"))

ProbeStates == { "open", "closed", "filtered", "open|filtered", "error" }

\* C21: the state of every result is one of open, closed, filtered,
\* open|filtered and error, whichever engine recorded it.
C21_StateEnumerated ==
    \A i \in DOMAIN results : results[i].state \in ProbeStates

\* nmap alone has run and a port it reported filtered is in the results
C21_Witness ==
    /\ engines_run = << "nmap" >>
    /\ pc = "done"
    /\ \E i \in DOMAIN results : results[i].state = "filtered"

\* C22: a closed port is in the results only when show_closed is set and a
\* filtered port is in the results only when show_filtered is set, whichever
\* engine found it.
C22_NonOpenOnlyIfAsked ==
    \A i \in DOMAIN results :
        /\ results[i].state = "closed" => params.show_closed
        /\ results[i].state = "filtered" => params.show_filtered

\* the TTL-based guess is available
TtlGuessMade == CAPABILITIES.scapy /\ icmp_ttl # 0 /\ TtlFamily(icmp_ttl) # ""

\* C23: after OS detection with a TTL-based guess (confidence 60) and a
\* service-based guess (Windows at 80 from the SMB or RDP service, else
\* Linux/Unix at 70 from OpenSSH), the reported family and confidence are those
\* of the service-based guess, which has the higher confidence.
C23_HigherConfidenceWins ==
    (pc = "os_done" /\ TtlGuessMade /\ (SmbSeen(results) \/ OpenSshSeen(results))) =>
        host_info = IF SmbSeen(results)
                    THEN [os_family |-> "Windows", os_confidence |-> 80]
                    ELSE [os_family |-> "Linux/Unix", os_confidence |-> 70]

\* one turn of the HTTP analysis in which no request was handled to its end: the
\* confidence of the result did not get its bonus
HttpProbeFailed ==
    /\ pc = "http_analysis"
    /\ idx' = idx + 1
    /\ results[idx + 1].state = "open"
    /\ results[idx + 1].service \in HttpServices \/ results[idx + 1].port \in HttpPorts
    /\ results[idx + 1].confidence < MaxConfidence
    /\ results'[idx + 1].confidence = results[idx + 1].confidence

\* C24: when the HTTP probing of a port fails, the HTTP fields of its result are
\* left at their empty defaults and the results of all other ports are unchanged.
C24_FailedProbeLeavesDefaults ==
    [][HttpProbeFailed =>
         /\ results'[idx + 1].http_status = 0
         /\ results'[idx + 1].http_server = ""
         /\ \A k \in DOMAIN results : k # idx + 1 => results'[k] = results[k]]_vars

\* C25: _build_result runs only when every task handed to the pool has ended,
\* and once the report is made nothing changes the results, the statistics or
\* the host information.
C25_SealedAfterTasks ==
    [][/\ (pc = "build" /\ pc' = "done") => \A i \in DOMAIN tasks : tasks[i] = "done"
       /\ output.kind = "report" =>
             /\ results' = results
             /\ stats' = stats
             /\ host_info' = host_info]_vars

C25_Witness ==
    /\ output.kind = "report"
    /\ Len(tasks) = MaxScanPorts
    /\ \A i \in DOMAIN tasks : tasks[i] = "done"
    /\ Len(results) = MaxScanPorts

\* task i returns from _update_adaptive_timeout
UpdateReturns(i) ==
    /\ frames[i].at \in { "upd_test", "upd_write" }
    /\ frames'[i].at = "done"

\* C26: whenever a call of _update_adaptive_timeout returns, whatever the other
\* workers are doing, timeout_history holds at most max_timeout_samples samples.
C26_WindowBounded ==
    [][\A i \in DOMAIN frames :
         UpdateReturns(i) => Len(timeout_history') <= max_timeout_samples]_vars

\* C27: when scan() has made its report, whatever engines ran and fell back, no
\* two results carry the same port number.
C27_PortOnce ==
    output.kind = "report" =>
        \A i, j \in DOMAIN results : results[i].port = results[j].port => i = j

\* the engine has returned to scan()
EngineReturned ==
    pc \in { "service_detection", "http_analysis", "build" } \/ output.kind = "report"

\* C28: when the connect or the half-open engine has run over the ports without
\* falling back, the open, closed, filtered and error tallies add up to the
\* number of ports.
C28_TalliesAddUp ==
    (EngineReturned /\ engines_run \in { << "connect" >>, << "syn" >> }) =>
        stats.open_ports + stats.closed_ports + stats.filtered_ports + stats.errors
            = Len(ports)

\* the results with state open
OpenResults == { k \in DOMAIN results : results[k].state = "open" }

\* C29: when every worker of the connect engine has ended, whatever their
\* interleaving, the open_ports counter is the number of results with state open.
C29_NoLostCount ==
    (pc = "connect_pool" /\ frames # << >> /\ \A i \in DOMAIN frames : At(i, "done")) =>
        stats.open_ports = Cardinality(OpenResults)

\* scan() has a non-empty port list and has called an engine
Dispatched == engines_run # << >>

\* at most three engines, none twice, connect only as the last one
ChainShape ==
    /\ Len(engines_run) <= 3
    /\ \A i, j \in DOMAIN engines_run : engines_run[i] = engines_run[j] => i = j
    /\ \A i \in DOMAIN engines_run : engines_run[i] = "connect" => i = Len(engines_run)

\* the connect engine was reached with a worker count no executor accepts
PoolRefused ==
    /\ max_workers <= 0
    /\ \E i \in DOMAIN engines_run : engines_run[i] = "connect"
    /\ output.kind = "exception"

=============================================================================
